---- MODULE Spec2Model ----
(***************************************************************************)
(* GameTranslationTool: the translation cache (translate_backend.py), the  *)
(* window capturer (capture.py), the capture worker (main.py), the hook    *)
(* worker (frida_worker.py) and the main window (main.py) as state         *)
(* machines.  Each component has its own specification; a component's      *)
(* actions leave the variables of the other components unchanged.  The     *)
(* functions of one input (ocr_image_data, RegionOverlay.paintEvent,       *)
(* list_windows) are applied to bounded sets of inputs in SpecFunctions.   *)
(* The results table and its editor (on_select, apply_translation,         *)
(* save_translations) are followed in SpecEditor, which begins with a      *)
(* window attached and "Real-time OCR" checked.                            *)
(*                                                                         *)
(* Strings are sequences of one-character strings, so that the cache key   *)
(* f"{src}|{dst}|{text}" is computed by concatenation as the code does.    *)
(* None is a value no string equals: a sequence whose one element is not a *)
(* single character.                                                       *)
(***************************************************************************)
EXTENDS Integers, Sequences, FiniteSets, TLC

VARIABLES
    \* ---- translate_backend.py ----
    translation_cache,  \* _translation_cache: key string -> cached result
    tpc,                \* per thread: position inside translate_text
    targs,              \* per thread: <<src_lang, dst_lang, text>> of the call
    tresult,            \* per thread: local `result` of translate_text
    tret,               \* per thread: what the last completed call returned
    toutcome,           \* per thread: how the last completed call ended
    tcalls,             \* per thread: number of translate_text calls begun
    tempty,             \* per thread: the cache was empty when the call began
    provider_calls,     \* per (src, dst, text): invocations of google_translate
    \* ---- capture.py ----
    platform,           \* "win" (WINDOWS), "mac" (MAC) or "other"
    cpc,                \* position inside capture_window_image
    img,                \* local img  (first strategy's frame or None)
    img2,               \* local img2 (second strategy's frame or None)
    tried,              \* strategies invoked so far, with what each produced
    cresult,            \* value returned by capture_window_image
    \* ---- main.py: CaptureWorker and the main thread that stops it ----
    interval,           \* self.interval, in ms
    ocr_interval,       \* self.ocr_interval, in ms
    enable_ocr,         \* self.enable_ocr
    running,            \* self._running
    wpc,                \* position of the worker thread inside run()
    busy,               \* ms left of the call or sleep the worker is inside
    elapsed,            \* time.time() - start, capped at ElapsedCap
    since_ocr,          \* time.time() - last_ocr, capped at the OCR interval
    ocr_due,            \* (start - last_ocr) >= self.ocr_interval of this tick
    pending,            \* outcome the call in flight will have
    ticks,              \* loop iterations begun
    mpc,                \* main thread: "idle" or inside stop()'s wait
    waited,             \* ms the main thread has spent in self.wait(2000)
    queue,              \* events emitted and not yet delivered to the window
    stop_called,        \* stop() has been called on the worker
    stop_returned,      \* that stop() has returned
    stopped_at,         \* where the worker was when stop() was called
    late_emit,          \* the worker emitted an event after stop() returned
    late_deliver,       \* an event reached the window after stop() returned
    got,                \* what the capture of the current iteration gave
    ocr_got,            \* how the recognition of the current iteration ended
    tick_frames,        \* frame_ready events emitted in the current iteration
    tick_ocrs,          \* ocr_ready events emitted in the current iteration
    work,               \* ms the current iteration spent in capture and recognition
    sleep_t,            \* ms the current iteration decided to sleep
    since_ocr_start,    \* ms since the last call of ocr_image_data began, capped
    ocr_gap,            \* since_ocr_start when the latest recognition began
    failed_ticks,       \* iterations whose recognition raised
    latest_ocr_tick,    \* iteration whose regions the window's latest_ocr holds
    frames,             \* frames captured (img is not None) since the thread began
    status,             \* text of the window's status label
    \* ---- frida_worker.py: TextractorWorker and the main thread ----
    h_running,          \* self._running
    hpc,                \* position of the hook thread inside run()
    has_session,        \* the attribute self._session has been assigned
    has_script,         \* the attribute self._script has been assigned
    session_attached,   \* the frida session is attached to the process
    script_loaded,      \* the instrumentation script is loaded in the process
    script_destroyed,   \* the script object has been unloaded or its session detached
    hmpc,               \* main thread: "idle" or its position inside stop()
    messages,           \* messages the script has sent so far, in order
    text_emitted,       \* payloads of the text_ready events emitted so far
    h_stop_called,      \* stop() has been called on the hook worker
    h_stop_returned,    \* that stop() has returned
    h_late_text,        \* text_ready was emitted after stop() returned
    \* ---- main.py: MainWindow ----
    attached_hwnd,      \* self.attached_hwnd is set
    realtime_chk,       \* "Real-time OCR" is checked
    hook_mode_chk,      \* "Use Textractor hook" is checked
    worker,             \* self.worker: 0 (None) or an index into cworkers
    textractor_worker,  \* self.textractor_worker: 0 or an index into hworkers
    cworkers,           \* the CaptureWorker objects created, in order
    hworkers,           \* the TextractorWorker objects created, in order
    blocked,            \* the main thread is in a wait() that never returns
    events,             \* events queued for the window's slots
    latest_ocr,         \* self.latest_ocr
    ocr_results,        \* self.ocr_results
    table,              \* rows of self.ocr_table
    hook_last_text,     \* self.hook_last_text
    hook_last_translation, \* self.hook_last_translation
    last_translation,   \* self.last_translation (None: not assigned yet)
    overlay,            \* the overlay on_frame_ready last gave the preview
    hook_sent,          \* lines the hook has delivered so far
    hook_arrived,       \* on_hook_text has run
    hook_since,         \* hook mode was checked over a recognising worker
    translate_failed,   \* regions whose translate_text raised in the last on_frame_ready
    selected,           \* row of self.ocr_table that is selected (0: none)
    edit,               \* text of self.edit
    saved,              \* <<>>, or <<the records written to translations.json>>
    \* ---- functions applied to one input ----
    ocr_in,             \* ocr_image_data: the frame and the text regions it shows
    ocr_out,            \* <<>>, or <<the list ocr_image_data returned>>
    paint_in,           \* paintEvent: frame size, widget size and one overlay entry
    paint_out,          \* <<>>, or <<where and how wide the label was drawn>>
    list_in,            \* list_windows: the platform and the windows the OS enumerates
    list_out            \* <<>>, or <<the list list_windows returned>>

tvars == <<translation_cache, tpc, targs, tresult, tret, toutcome, tcalls,
           tempty, provider_calls>>
cvars == <<platform, cpc, img, img2, tried, cresult>>
wvars == <<interval, ocr_interval, enable_ocr, running, wpc, busy, elapsed,
           since_ocr, ocr_due, pending, ticks, mpc, waited, queue, stop_called,
           stop_returned, stopped_at, late_emit, late_deliver, got, ocr_got,
           tick_frames, tick_ocrs, work, sleep_t, since_ocr_start, ocr_gap,
           failed_ticks, latest_ocr_tick, frames, status>>
hvars == <<h_running, hpc, has_session, has_script, session_attached,
           script_loaded, script_destroyed, hmpc, messages, text_emitted,
           h_stop_called, h_stop_returned, h_late_text>>
mvars == <<attached_hwnd, realtime_chk, hook_mode_chk, worker, textractor_worker,
           cworkers, hworkers, blocked, events, latest_ocr, ocr_results, table,
           hook_last_text, hook_last_translation, last_translation, overlay,
           hook_sent, hook_arrived, hook_since, translate_failed, selected, edit,
           saved>>
pvars == <<ocr_in, ocr_out, paint_in, paint_out, list_in, list_out>>
vars == <<tvars, cvars, wvars, hvars, mvars, pvars>>

None == <<"None">>

(***************************************************************************)
(* translate_backend.py                                                    *)
(***************************************************************************)

\* Number of threads that may call translate_text.
NThreads == 2
\* Calls of translate_text each thread makes at most.
MaxCalls == 2

Threads == 1..NThreads

\* Language codes of LANG_MAP used as inputs, and texts: an ordinary line
\* and a whitespace-only line.
SrcLangs == {<<"j", "a">>, <<"a", "u", "t", "o">>}
DstLangs == {<<"e", "n">>}
Texts == {<<"h", "i">>, <<" ">>}
Triples == SrcLangs \X DstLangs \X Texts

\* Translations the provider may extract from a 200 response.
Replies == {<<"o", "k">>, <<"O", "K">>}

\* str.strip() on the characters the inputs use: leading and trailing
\* whitespace removed.
IsSpace(c) == c \in {" ", "\t", "\n"}

RECURSIVE lstrip(_)
lstrip(s) == IF s # <<>> /\ IsSpace(Head(s)) THEN lstrip(Tail(s)) ELSE s

RECURSIVE rstrip(_)
rstrip(s) ==
    IF s # <<>> /\ IsSpace(s[Len(s)]) THEN rstrip(SubSeq(s, 1, Len(s) - 1)) ELSE s

strip(s) == rstrip(lstrip(s))

\* key = f"{src_lang}|{dst_lang}|{text}"
CacheKey(src_lang, dst_lang, text) ==
    src_lang \o <<"|">> \o dst_lang \o <<"|">> \o text

KeyOf(a) == CacheKey(a[1], a[2], a[3])

\* What one invocation of google_translate(text, src, dst) can do: return ""
\* for a blank text without any request; otherwise the request raises
\* (transport error, timeout), answers with a status other than 200 (text is
\* returned), answers 200 with no result container (text is returned), or
\* answers 200 with a translation.
google_translate(text) ==
    IF strip(text) = <<>>
    THEN {[kind |-> "blank", value |-> <<>>]}
    ELSE {[kind |-> "raised", value |-> None],
          [kind |-> "non200", value |-> text],
          [kind |-> "parsefail", value |-> text]}
         \cup {[kind |-> "ok", value |-> r] : r \in Replies}

\* translate_text, line 110: a thread enters and computes the key.
TCall(t, a) ==
    /\ tpc[t] = "idle"
    /\ tcalls[t] < MaxCalls
    /\ tpc' = [tpc EXCEPT ![t] = "test"]
    /\ targs' = [targs EXCEPT ![t] = a]
    /\ tcalls' = [tcalls EXCEPT ![t] = @ + 1]
    /\ tempty' = [tempty EXCEPT ![t] = (DOMAIN translation_cache = {})]
    /\ tresult' = [tresult EXCEPT ![t] = None]
    /\ toutcome' = [toutcome EXCEPT ![t] = "running"]
    /\ tret' = [tret EXCEPT ![t] = None]
    /\ UNCHANGED <<translation_cache, provider_calls, cvars, wvars, hvars, mvars,
                   pvars>>

\* translate_text, lines 111-112: the membership test; a hit returns the entry.
TTest(t) ==
    /\ tpc[t] = "test"
    /\ IF KeyOf(targs[t]) \in DOMAIN translation_cache
       THEN /\ tpc' = [tpc EXCEPT ![t] = "idle"]
            /\ tret' = [tret EXCEPT ![t] = translation_cache[KeyOf(targs[t])]]
            /\ toutcome' = [toutcome EXCEPT ![t] = "hit"]
       ELSE /\ tpc' = [tpc EXCEPT ![t] = "provider"]
            /\ UNCHANGED <<tret, toutcome>>
    /\ UNCHANGED <<translation_cache, targs, tresult, tcalls, tempty, provider_calls, cvars, wvars, hvars, mvars,
                   pvars>>

\* translate_text, line 114: google_translate is invoked.  An exception of the
\* request is caught nowhere: it leaves translate_text, line 115 is not reached.
TProvider(t) ==
    /\ tpc[t] = "provider"
    /\ provider_calls' = [provider_calls EXCEPT ![targs[t]] = @ + 1]
    /\ \E o \in google_translate(targs[t][3]) :
          IF o.kind = "raised"
          THEN /\ tpc' = [tpc EXCEPT ![t] = "idle"]
               /\ toutcome' = [toutcome EXCEPT ![t] = "raised"]
               /\ UNCHANGED tresult
          ELSE /\ tpc' = [tpc EXCEPT ![t] = "store"]
               /\ toutcome' = [toutcome EXCEPT ![t] = o.kind]
               /\ tresult' = [tresult EXCEPT ![t] = o.value]
    /\ UNCHANGED <<translation_cache, targs, tret, tcalls, tempty, cvars, wvars, hvars, mvars,
                   pvars>>

\* translate_text, lines 115-116: the result is stored and returned.
TStore(t) ==
    /\ tpc[t] = "store"
    /\ translation_cache' =
          [k \in DOMAIN translation_cache \cup {KeyOf(targs[t])} |->
              IF k = KeyOf(targs[t]) THEN tresult[t] ELSE translation_cache[k]]
    /\ tret' = [tret EXCEPT ![t] = tresult[t]]
    /\ tpc' = [tpc EXCEPT ![t] = "idle"]
    /\ UNCHANGED <<targs, tresult, toutcome, tcalls, tempty, provider_calls, cvars, wvars, hvars, mvars,
                   pvars>>

TInit ==
    /\ translation_cache = <<>>
    /\ tpc = [t \in Threads |-> "idle"]
    /\ targs = [t \in Threads |-> <<<<>>, <<>>, <<>>>>]
    /\ tresult = [t \in Threads |-> None]
    /\ tret = [t \in Threads |-> None]
    /\ toutcome = [t \in Threads |-> "none"]
    /\ tcalls = [t \in Threads |-> 0]
    /\ tempty = [t \in Threads |-> FALSE]
    /\ provider_calls = [a \in Triples |-> 0]

(***************************************************************************)
(* Claims about translate_text                                             *)
(***************************************************************************)

\* C1: over any sequence of translate_text calls, google_translate is invoked
\* at most once for a fixed (srcLang, dstLang, text), whatever the outcome of
\* the first call, so that no call after the first reaches the provider.
C1_ProviderAtMostOnce == \A a \in Triples : provider_calls[a] <= 1

\* C2: when every thread has made one call with identical arguments, each
\* begun on an empty cache, and all have returned, google_translate was
\* invoked exactly once and all calls returned the same value.
C2_ConcurrentExactlyOnce ==
    ( /\ \A t \in Threads : tcalls[t] = 1 /\ tpc[t] = "idle" /\ tempty[t]
      /\ \A t \in Threads : targs[t] = targs[1]
      /\ \A t \in Threads : toutcome[t] # "raised" )
    => /\ provider_calls[targs[1]] = 1
       /\ \A t \in Threads : tret[t] = tret[1]

\* C3: translate_text fails open: no call ends with an exception, and a call
\* whose provider failed returns the original text.
C3_FailsOpen ==
    \A t \in Threads :
        /\ toutcome[t] # "raised"
        /\ (tpc[t] = "idle" /\ toutcome[t] \in {"non200", "parsefail"})
               => tret[t] = targs[t][3]

\* C4: a translation failure is never stored: once a call whose provider
\* failed has completed, the cache holds no entry for its key (so the next
\* call with that key invokes the provider again).
C4_FailureNotCached ==
    \A t \in Threads :
        (tpc[t] = "idle" /\ toutcome[t] \in {"raised", "non200", "parsefail"})
            => KeyOf(targs[t]) \notin DOMAIN translation_cache


\* C27: cache entries are immutable and never evicted: a key present in the
\* cache is present with the same value in every later state, under any
\* interleaving of translate_text calls.
C27_CacheEntriesImmutable ==
    [][\A k \in DOMAIN translation_cache :
          /\ k \in DOMAIN translation_cache'
          /\ translation_cache'[k] = translation_cache[k]]_vars

\* C28: under a race of concurrent translate_text calls for one key at most
\* one redundant provider call is made for that key (two calls in all), and
\* once all racing calls have completed the cache holds a value for the key,
\* so that every later call returns it without invoking the provider.
C28_OneRedundantCallAtMost ==
    \A a \in Triples :
        /\ provider_calls[a] <= 2
        /\ (provider_calls[a] > 0 /\ \A t \in Threads : tpc[t] = "idle")
              => KeyOf(a) \in DOMAIN translation_cache

(***************************************************************************)
(* capture.py                                                              *)
(***************************************************************************)

\* Largest width and height of a window rectangle or of a frame.
MaxDim == 2

\* float(arr.var()) of a frame: flat, just under and at the threshold.
Variances == {0, 49, 50}

\* if v < 50
VarianceThreshold == 50

\* A frame is its size, its pixel variance and the strategy it came from.
\* NoFrame is Python's None; Raised marks a strategy that raised.
Frame(by, w, h, v) == [by |-> by, w |-> w, h |-> h, var |-> v]
NoFrame == Frame("none", 0, 0, 0)
Raised == Frame("raised", 0, 0, 0)

\* get_window_rect(hwnd): None, or a rectangle, here its width right - left
\* and height bottom - top (0 for a minimised or collapsed window).
WindowRects == {NoFrame} \cup {Frame("rect", w, h, 0) : w \in 0..MaxDim, h \in 0..MaxDim}

\* _looks_invalid(pil_img): arr.size == 0, or a variance under the threshold.
looks_invalid_at_threshold(f) == (f.h * f.w * 3 = 0) \/ (f.var <= VarianceThreshold)
looks_invalid(f) == (f.h * f.w * 3 = 0) \/ (f.var < VarianceThreshold)

\* _bitblt_capture(hwnd): None without a rectangle or with w <= 0 or h <= 0;
\* otherwise the GDI calls of lines 90-107 are made outside any try and either
\* raise or give a bitmap of the rectangle's size.
bitblt_capture(rect) ==
    IF rect = NoFrame THEN {NoFrame}
    ELSE IF rect.w <= 0 \/ rect.h <= 0 THEN {NoFrame}
    ELSE {Raised} \cup {Frame("bitblt", rect.w, rect.h, v) : v \in Variances}

\* _dxgi_capture(hwnd): the whole body is inside try/except, so a failure of
\* dxcam gives None; without a rectangle None; grab() gives None or an array
\* of the region, whose size the function does not check.
dxgi_capture(rect) ==
    IF rect = NoFrame THEN {NoFrame}
    ELSE {NoFrame} \cup {Frame("dxgi", rect.w, rect.h, v) : v \in Variances}

\* _mac_capture_window(window_id): None on any failure, else an image of the
\* width and height Quartz reports, which the function does not check.
mac_capture_window ==
    {NoFrame} \cup {Frame("window", w, h, v) : w \in 0..MaxDim, h \in 0..MaxDim, v \in Variances}

\* ImageGrab.grab(): the whole screen (never empty), or an exception.
ImageGrab_grab ==
    {Raised} \cup {Frame("screen", w, h, v) : w \in 1..MaxDim, h \in 1..MaxDim, v \in Variances}

\* Python's `a or b` on two values that are None or a PIL image: an image has
\* neither __bool__ nor __len__, so it is true.
PyOr(a, b) == IF a # NoFrame THEN a ELSE b

\* capture_window_image, lines 199-201: what is returned once DXGI has run.
WinDxgiResultNoCheck(i1, i2) == PyOr(i1, i2)

WinDxgiResult(i1, i2) ==
    IF i2 # NoFrame /\ ~looks_invalid(i2) THEN i2 ELSE PyOr(i1, i2)

\* The platform's strategies in the order capture_window_image calls them.
StrategyOrder(p) ==
    CASE p = "win" -> <<"bitblt", "dxgi">>
      [] p = "mac" -> <<"window", "screen">>
      [] OTHER -> <<>>

Try(by, out) == [by |-> by, out |-> out]

\* Line 195: img = _bitblt_capture(hwnd).  An exception leaves the function.
WinBitblt ==
    /\ cpc = "start" /\ platform = "win"
    /\ \E rect \in WindowRects : \E o \in bitblt_capture(rect) :
          /\ tried' = Append(tried, Try("bitblt", o))
          /\ IF o = Raised
             THEN cpc' = "raised" /\ UNCHANGED img
             ELSE cpc' = "after_first" /\ img' = o
    /\ UNCHANGED <<platform, img2, cresult, tvars, wvars, hvars, mvars, pvars>>

\* Lines 196-197: the BitBlt frame passes the heuristic and is returned.
WinReturnBitblt ==
    /\ cpc = "after_first" /\ platform = "win"
    /\ img # NoFrame /\ ~looks_invalid(img)
    /\ cresult' = img
    /\ cpc' = "done"
    /\ UNCHANGED <<platform, img, img2, tried, tvars, wvars, hvars, mvars, pvars>>

\* Lines 198-201: img2 = _dxgi_capture(hwnd); the frame if it passes the
\* heuristic, else img or img2.
WinDxgi ==
    /\ cpc = "after_first" /\ platform = "win"
    /\ ~(img # NoFrame /\ ~looks_invalid(img))
    /\ \E rect \in WindowRects : \E o \in dxgi_capture(rect) :
          /\ img2' = o
          /\ tried' = Append(tried, Try("dxgi", o))
          /\ cresult' = WinDxgiResult(img, o)
    /\ cpc' = "done"
    /\ UNCHANGED <<platform, img, tvars, wvars, hvars, mvars, pvars>>

\* Line 205: img = _mac_capture_window(window_id=hwnd).
MacWindow ==
    /\ cpc = "start" /\ platform = "mac"
    /\ \E o \in mac_capture_window :
          /\ img' = o
          /\ tried' = Append(tried, Try("window", o))
    /\ cpc' = "after_first"
    /\ UNCHANGED <<platform, img2, cresult, tvars, wvars, hvars, mvars, pvars>>

\* Lines 207-208: the window frame passes the heuristic and is returned.
MacReturnWindow ==
    /\ cpc = "after_first" /\ platform = "mac"
    /\ img # NoFrame /\ ~looks_invalid(img)
    /\ cresult' = img
    /\ cpc' = "done"
    /\ UNCHANGED <<platform, img, img2, tried, tvars, wvars, hvars, mvars, pvars>>

\* Lines 211-215: the full-screen grab is returned as it is; None if it raised.
MacGrab ==
    /\ cpc = "after_first" /\ platform = "mac"
    /\ ~(img # NoFrame /\ ~looks_invalid(img))
    /\ \E o \in ImageGrab_grab :
          /\ tried' = Append(tried, Try("screen", o))
          /\ IF o = Raised
             THEN cresult' = NoFrame /\ UNCHANGED img2
             ELSE cresult' = o /\ img2' = o
    /\ cpc' = "done"
    /\ UNCHANGED <<platform, img, tvars, wvars, hvars, mvars, pvars>>

\* Line 217: neither Windows nor macOS.
OtherReturn ==
    /\ cpc = "start" /\ platform = "other"
    /\ cresult' = NoFrame
    /\ cpc' = "done"
    /\ UNCHANGED <<platform, img, img2, tried, tvars, wvars, hvars, mvars, pvars>>

\* Before the call, on any platform.
CInit ==
    /\ platform \in {"win", "mac", "other"}
    /\ cpc = "start"
    /\ img = NoFrame
    /\ img2 = NoFrame
    /\ tried = <<>>
    /\ cresult = NoFrame

\* The capturer at rest, for the specifications of the other components.
CIdle == CInit /\ platform = "other"

(***************************************************************************)
(* Claims about capture_window_image                                       *)
(***************************************************************************)

\* The strategies invoked so far that produced a frame, and those whose frame
\* passes the validity heuristic.
NonNullTries == {i \in 1..Len(tried) : tried[i].out \notin {NoFrame, Raised}}
ValidTries == {i \in NonNullTries : ~looks_invalid(tried[i].out)}

FirstOf(S) == CHOOSE i \in S : \A j \in S : i <= j
LastOf(S) == CHOOSE i \in S : \A j \in S : j <= i

\* C5: the strategies are invoked in the platform's fixed order, and a call
\* that returns after some invoked strategy gave a frame passing the heuristic
\* returns the frame of the first such strategy (a frame that passes it).
C5_FirstValidFrameReturned ==
    /\ \A i \in 1..Len(tried) :
          i <= Len(StrategyOrder(platform)) /\ tried[i].by = StrategyOrder(platform)[i]
    /\ (cpc = "done" /\ ValidTries # {})
          => /\ cresult = tried[FirstOf(ValidTries)].out
             /\ ~looks_invalid(cresult)

\* C5's case: on Windows BitBlt gave a frame that fails the heuristic, DXGI one
\* that passes it, and the call returned the DXGI frame.
C5_Witness ==
    /\ cpc = "done" /\ platform = "win"
    /\ img # NoFrame /\ looks_invalid(img)
    /\ img2 # NoFrame /\ ~looks_invalid(img2)
    /\ cresult = img2

\* C6: when no strategy gave a frame passing the heuristic, the call returns
\* the last non-null frame obtained, and None only if no strategy gave a frame.
C6_LastNonNullFrameReturned ==
    (cpc = "done" /\ ValidTries = {})
        => cresult = IF NonNullTries = {} THEN NoFrame
                     ELSE tried[LastOf(NonNullTries)].out

\* C7: a strategy that raises never ends the call with an exception: the call
\* goes on to the next strategy in order, whichever strategy raised.
C7_StrategyExceptionAbsorbed ==
    /\ cpc # "raised"
    /\ \A i \in 1..Len(tried) :
          (cpc = "done" /\ tried[i].out = Raised /\ i < Len(StrategyOrder(platform)))
              => Len(tried) > i

C30_VarianceHeuristic ==
    /\ \A i \in NonNullTries :
          LET f == tried[i].out
          IN /\ f.w * f.h = 0 => looks_invalid(f)
             /\ f.var < VarianceThreshold => looks_invalid(f)
             /\ (f.w * f.h > 0 /\ f.var >= VarianceThreshold) => ~looks_invalid(f)
    /\ (platform \in {"win", "mac"} /\ 1 \in NonNullTries)
          => LET f == tried[1].out
             IN /\ Len(tried) >= 2 => (f.w * f.h = 0 \/ f.var < VarianceThreshold)
                /\ (cpc = "done" /\ Len(tried) = 1)
                      => (f.w * f.h > 0 /\ f.var >= VarianceThreshold /\ cresult = f)

\* C30's case: on Windows the BitBlt frame had variance 49 and was passed
\* over, the DXGI frame had variance 50, was accepted and is the frame returned.
C30_Witness ==
    /\ platform = "win" /\ cpc = "done" /\ Len(tried) = 2
    /\ tried[1].out.by = "bitblt" /\ tried[1].out.var = 49
    /\ tried[2].out.by = "dxgi" /\ tried[2].out.var = 50
    /\ tried[2].out.w * tried[2].out.h > 0
    /\ cresult = tried[2].out

(***************************************************************************)
(* main.py: CaptureWorker.run / stop, and the main thread                  *)
(*                                                                         *)
(* Time is counted in ms and passes in steps of Quantum.  A call that      *)
(* blocks (capture, recognition, sleep) holds the worker for `busy` ms;    *)
(* the other statements of run() take no time.                             *)
(***************************************************************************)

\* ms that pass in one step of time.
Quantum == 500
\* Loop iterations a worker begins at most.
MaxTicks == 2

\* max(60, int(interval_ms)), max(500, int(ocr_every_ms)), self.wait(2000)
MinIntervalMs == 60
MinOcrIntervalMs == 500
WaitMs == 2000

\* Values given to the constructor for the two intervals (the spin boxes give
\* 60..2000 and 500..5000; smaller values are clamped), and how long
\* capture_window_image and ocr_image_data can take: no time, a part of a
\* tick, longer than the wait.
IntervalInputs == {30, 500, 1000}
OcrInputs == {100, 500, 1500}
CaptureDurations == {0, 500, 2500}
OcrDurations == {0, 2500}

Max2(a, b) == IF a >= b THEN a ELSE b
Min2(a, b) == IF a <= b THEN a ELSE b

\* What capture_window_image gives the worker: a frame, None, or (Windows,
\* BitBlt) an exception that run() does not catch.
CaptureOutcomes == {"frame", "none", "raised"}
\* ocr_image_data returns a list or raises.
OcrOutcomes == {"ok", "raised"}

\* CaptureWorker.__init__, lines 33-37.
WorkerConstructed(interval_ms, ocr_every_ms, ocr) ==
    /\ interval = Max2(MinIntervalMs, interval_ms)
    /\ ocr_interval = Max2(MinOcrIntervalMs, ocr_every_ms)
    /\ enable_ocr = ocr
    /\ running = FALSE

WInit ==
    /\ \E i \in IntervalInputs, o \in OcrInputs, e \in BOOLEAN : WorkerConstructed(i, o, e)
    /\ wpc = "new"
    /\ busy = 0
    /\ elapsed = 0
    /\ since_ocr = 0
    /\ ocr_due = FALSE
    /\ pending = "none"
    /\ ticks = 0
    /\ mpc = "idle"
    /\ waited = 0
    /\ queue = <<>>
    /\ stop_called = FALSE
    /\ stop_returned = FALSE
    /\ stopped_at = "new"
    /\ late_emit = FALSE
    /\ late_deliver = FALSE
    /\ got = "nothing"
    /\ ocr_got = "nothing"
    /\ tick_frames = 0
    /\ tick_ocrs = 0
    /\ work = 0
    /\ sleep_t = 0
    /\ since_ocr_start = ocr_interval
    /\ ocr_gap = ocr_interval
    /\ failed_ticks = {}
    /\ latest_ocr_tick = 0
    /\ frames = 0
    /\ status = ""

\* The worker at rest, for the specifications of the other components.
WIdle == WInit /\ interval = 500 /\ ocr_interval = 500 /\ ~enable_ocr

wconfig == <<interval, ocr_interval, enable_ocr>>
whistory == <<stop_called, stop_returned, stopped_at, late_emit, late_deliver>>
wtick == <<got, ocr_got, tick_frames, tick_ocrs, work, sleep_t>>
wocr == <<since_ocr_start, ocr_gap, failed_ticks, latest_ocr_tick, frames>>

\* time.time() - start is followed up to the larger of the two intervals it
\* is compared with (lines 52 and 61).
ElapsedCap == Max2(interval, ocr_interval)

\* self.frame_ready.emit(img) / self.ocr_ready.emit(data): the receiver lives
\* in the main thread, so the event is queued for it.  The event carries the
\* iteration whose frame or regions it holds.
Emit(sig) ==
    /\ queue' = Append(queue, [sig |-> sig, tick |-> ticks])
    /\ late_emit' = (late_emit \/ stop_returned)
    /\ tick_frames' = IF sig = "frame_ready" THEN tick_frames + 1 ELSE tick_frames
    /\ tick_ocrs' = IF sig = "ocr_ready" THEN tick_ocrs + 1 ELSE tick_ocrs

NoEmit == UNCHANGED <<queue, late_emit, tick_frames, tick_ocrs>>

\* start_worker, lines 380-381: self.worker.start() launches the thread and
\* the status label announces it.
StartWorker ==
    /\ mpc = "idle" /\ wpc = "new"
    /\ wpc' = "spawned"
    /\ status' = "Real-time preview started."
    /\ UNCHANGED <<wconfig, running, busy, elapsed, since_ocr, ocr_due, pending,
                   ticks, mpc, waited, queue, whistory, wtick, wocr, tvars, cvars,
                   hvars, mvars, pvars>>

\* run(), lines 44-45: self._running = True; last_ocr = 0.0 (the epoch, so the
\* first comparison with the OCR interval succeeds).
RunBeginFromNow ==
    /\ wpc = "spawned"
    /\ running' = TRUE
    /\ since_ocr' = 0
    /\ wpc' = "top"
    /\ UNCHANGED <<wconfig, status, busy, elapsed, ocr_due, pending, ticks, mpc, waited,
                   queue, whistory, wtick, wocr, tvars, cvars, hvars, mvars,
                   pvars>>
RunBegin ==
    /\ wpc = "spawned"
    /\ running' = TRUE
    /\ since_ocr' = ocr_interval
    /\ wpc' = "top"
    /\ UNCHANGED <<wconfig, status, busy, elapsed, ocr_due, pending, ticks, mpc, waited,
                   queue, whistory, wtick, wocr, tvars, cvars, hvars, mvars,
                   pvars>>

\* Line 46, flag cleared: the loop and the thread end.
LoopExit ==
    /\ wpc = "top" /\ ~running
    /\ wpc' = "finished"
    /\ UNCHANGED <<wconfig, status, running, busy, elapsed, since_ocr, ocr_due, pending,
                   ticks, mpc, waited, queue, whistory, wtick, wocr, tvars, cvars,
                   hvars, mvars, pvars>>

\* Lines 46-48, flag set: start = time.time(); capture_window_image is called.
TickBegin ==
    /\ wpc = "top" /\ running
    /\ ticks < MaxTicks
    /\ ticks' = ticks + 1
    /\ elapsed' = 0
    /\ ocr_due' = (since_ocr >= ocr_interval)
    /\ \E d \in CaptureDurations, o \in CaptureOutcomes :
          busy' = d /\ pending' = o
    /\ wpc' = "capture"
    /\ got' = "nothing" /\ ocr_got' = "nothing"
    /\ tick_frames' = 0 /\ tick_ocrs' = 0
    /\ work' = 0 /\ sleep_t' = 0
    /\ UNCHANGED <<wconfig, status, running, since_ocr, mpc, waited, queue, whistory, wocr,
                   tvars, cvars, hvars, mvars, pvars>>

\* Line 49: if img is not None.
IsFrameAlways(outcome) == TRUE
IsFrame(outcome) == outcome = "frame"

\* Line 52: if self.enable_ocr and (start - last_ocr) >= self.ocr_interval.
RecognitionDueAlways == enable_ocr
RecognitionDue == enable_ocr /\ ocr_due

\* Lines 48-52: the capture returns.  A frame is emitted at once, the flag is
\* not read again; recognition follows if enabled and due.  An exception of
\* the capture ends run().
CaptureDone ==
    /\ wpc = "capture" /\ busy = 0
    /\ got' = pending
    /\ frames' = IF pending # "raised" /\ IsFrame(pending) THEN frames + 1 ELSE frames
    /\ IF pending = "raised"
       THEN /\ wpc' = "crashed"
            /\ NoEmit
            /\ UNCHANGED <<busy, pending, since_ocr_start, ocr_gap>>
       ELSE IF IsFrame(pending)
       THEN /\ Emit("frame_ready")
            /\ IF RecognitionDue
               THEN /\ wpc' = "ocr"
                    /\ \E d \in OcrDurations, o \in OcrOutcomes :
                          busy' = d /\ pending' = o
                    /\ ocr_gap' = since_ocr_start
                    /\ since_ocr_start' = 0
               ELSE /\ wpc' = "after"
                    /\ UNCHANGED <<busy, pending, since_ocr_start, ocr_gap>>
       ELSE /\ wpc' = "after"
            /\ NoEmit
            /\ UNCHANGED <<busy, pending, since_ocr_start, ocr_gap>>
    /\ UNCHANGED <<wconfig, status, running, elapsed, since_ocr, ocr_due, ticks, mpc,
                   waited, stop_called, stop_returned, stopped_at, late_deliver,
                   ocr_got, work, sleep_t, failed_ticks, latest_ocr_tick,
                   tvars, cvars, hvars, mvars, pvars>>

\* Lines 53-57: ocr_ready is emitted when ocr_image_data returned; an
\* exception is caught and printed.
OcrEmitsAlways(outcome) == TRUE
OcrEmits(outcome) == outcome = "ok"

\* Lines 53-58: ocr_image_data returns and ocr_ready is emitted, or it raised
\* and the exception is printed; last_ocr = start.
OcrDone ==
    /\ wpc = "ocr" /\ busy = 0
    /\ ocr_got' = pending
    /\ IF OcrEmits(pending) THEN Emit("ocr_ready") ELSE NoEmit
    /\ failed_ticks' = IF pending = "raised" THEN failed_ticks \cup {ticks}
                       ELSE failed_ticks
    /\ since_ocr' = Min2(elapsed, ocr_interval)
    /\ wpc' = "after"
    /\ UNCHANGED <<wconfig, status, running, busy, elapsed, ocr_due, pending, ticks, mpc,
                   waited, stop_called, stop_returned, stopped_at, late_deliver,
                   got, work, sleep_t, since_ocr_start, ocr_gap, latest_ocr_tick, frames,
                   tvars, cvars, hvars, mvars, pvars>>

\* Lines 60-61: dt = time.time() - start; sleep_t = self.interval - dt.
SleepTimeFull(dt) == interval
SleepTime(dt) == interval - dt

\* Lines 60-63: sleep only if sleep_t is positive.
SleepBegin ==
    /\ wpc = "after"
    /\ IF SleepTime(elapsed) > 0
       THEN wpc' = "sleep" /\ busy' = SleepTime(elapsed) /\ sleep_t' = SleepTime(elapsed)
       ELSE wpc' = "top" /\ UNCHANGED <<busy, sleep_t>>
    /\ UNCHANGED <<wconfig, status, running, elapsed, since_ocr, ocr_due, pending, ticks,
                   mpc, waited, queue, whistory, got, ocr_got, tick_frames,
                   tick_ocrs, work, wocr, tvars, cvars, hvars, mvars,
                   pvars>>

\* time.sleep(sleep_t) returns: back to line 46.
SleepEnd ==
    /\ wpc = "sleep" /\ busy = 0
    /\ wpc' = "top"
    /\ UNCHANGED <<wconfig, status, running, busy, elapsed, since_ocr, ocr_due, pending,
                   ticks, mpc, waited, queue, whistory, wtick, wocr, tvars, cvars,
                   hvars, mvars, pvars>>

\* CaptureWorker.stop, line 70, called once by stop_worker on a started
\* worker: self._running = False; then the main thread blocks in wait(2000).
StopBegin ==
    /\ mpc = "idle" /\ wpc # "new" /\ ~stop_called
    /\ running' = FALSE
    /\ mpc' = "stop_wait"
    /\ waited' = 0
    /\ stop_called' = TRUE
    /\ stopped_at' = wpc
    /\ UNCHANGED <<wconfig, status, wpc, busy, elapsed, since_ocr, ocr_due, pending,
                   ticks, queue, stop_returned, late_emit, late_deliver, wtick,
                   wocr, tvars, cvars, hvars, mvars, pvars>>

\* The thread has ended, or the 2000 ms of wait(2000) have passed.
WaitOver == wpc \in {"finished", "crashed"} \/ waited >= WaitMs

\* Line 71: self.wait(2000) returns and with it stop().
StopReturn ==
    /\ mpc = "stop_wait"
    /\ WaitOver
    /\ mpc' = "idle"
    /\ stop_returned' = TRUE
    /\ UNCHANGED <<wconfig, status, running, wpc, busy, elapsed, since_ocr, ocr_due,
                   pending, ticks, waited, queue, stop_called, stopped_at,
                   late_emit, late_deliver, wtick, wocr, tvars, cvars, hvars, mvars,
                   pvars>>

\* The main thread's event loop runs the slot of the oldest queued event:
\* on_frame_ready, or on_ocr_ready, whose line 549 replaces latest_ocr by the
\* event's regions.  Nothing disconnects a stopped worker.
Deliver ==
    /\ mpc = "idle" /\ queue # <<>>
    /\ queue' = Tail(queue)
    /\ late_deliver' = (late_deliver \/ stop_returned)
    /\ latest_ocr_tick' = IF Head(queue).sig = "ocr_ready" THEN Head(queue).tick
                          ELSE latest_ocr_tick
    /\ UNCHANGED <<wconfig, status, running, wpc, busy, elapsed, since_ocr, ocr_due,
                   pending, ticks, mpc, waited, stop_called, stop_returned,
                   stopped_at, late_emit, wtick, since_ocr_start, ocr_gap,
                   failed_ticks, frames, tvars, cvars, hvars, mvars, pvars>>

\* The worker is inside a call that blocks and has time left, or is not
\* executing run() at all, or has used up its iterations.
WorkerLetsTimePass ==
    \/ wpc \in {"capture", "ocr", "sleep"} /\ busy > 0
    \/ wpc \in {"new", "finished", "crashed"}
    \/ wpc = "top" /\ running /\ ticks >= MaxTicks

\* Quantum ms pass: only while no statement that takes no time is due, and
\* not past the moment wait(2000) returns.
TimePasses ==
    /\ WorkerLetsTimePass
    /\ ~(mpc = "stop_wait" /\ WaitOver)
    /\ wpc \in {"capture", "ocr", "sleep"} \/ mpc = "stop_wait"
    /\ busy' = Max2(0, busy - Quantum)
    /\ elapsed' = Min2(ElapsedCap, elapsed + Quantum)
    /\ since_ocr' = Min2(ocr_interval, since_ocr + Quantum)
    /\ since_ocr_start' = Min2(ocr_interval, since_ocr_start + Quantum)
    /\ work' = IF wpc \in {"capture", "ocr"} THEN work + Quantum ELSE work
    /\ waited' = IF mpc = "stop_wait" THEN Min2(WaitMs, waited + Quantum) ELSE waited
    /\ UNCHANGED <<wconfig, status, running, wpc, ocr_due, pending, ticks, mpc, queue,
                   whistory, got, ocr_got, tick_frames, tick_ocrs, sleep_t,
                   ocr_gap, failed_ticks, latest_ocr_tick, frames, tvars, cvars, hvars,
                   mvars, pvars>>

(***************************************************************************)
(* Claims about CaptureWorker                                              *)
(***************************************************************************)

\* C9: after stop() has returned on a worker that was running its loop, the
\* worker emits no further frame_ready or ocr_ready, none of its events is
\* delivered to the window, and stop() took at most one tick interval plus
\* the 2000 ms wait.
C9_QuietAfterStop ==
    (stop_called /\ stopped_at # "spawned")
        => /\ ~late_emit
           /\ ~late_deliver
           /\ waited <= interval + WaitMs

\* C10: once stop() has been called on a started worker, the worker finds the
\* running flag cleared at the top of its next cycle, whatever the order of
\* start(), run()'s own `running = True` and stop().
C10_StopObservedAtTop ==
    (stop_called /\ wpc = "top") => ~running

\* C14: in every loop iteration the worker emits exactly one frame_ready if
\* the capture returned a frame, and no event at all (neither frame_ready nor
\* ocr_ready) if the capture returned None.
C14_OneFramePerCapture ==
    /\ got = "frame" => tick_frames = 1
    /\ got = "none" => (tick_frames = 0 /\ tick_ocrs = 0)
    /\ \A i \in 1..Len(queue) :
          queue[i].tick = ticks => (got = "frame" /\ wpc # "capture")

\* C14's cases: the first iteration's capture gave a frame and its one
\* frame_ready is queued; the second iteration's capture gave None and the
\* iteration ended with nothing emitted.
C14_Witness ==
    /\ ticks = 2 /\ wpc = "top"
    /\ got = "none" /\ tick_frames = 0 /\ tick_ocrs = 0
    /\ queue = <<[sig |-> "frame_ready", tick |-> 1]>>

\* C15 as stated: recognition runs only when enable_ocr is set, a worker with
\* recognition disabled never emits ocr_ready, the recognition interval is at
\* least 500 ms, and a recognition run begins at least that interval after
\* the previous run of the worker began.
C15_RecognitionRunsApart ==
    /\ ocr_interval >= MinOcrIntervalMs
    /\ wpc = "ocr" => enable_ocr
    /\ ~enable_ocr => (tick_ocrs = 0 /\ \A i \in 1..Len(queue) : queue[i].sig # "ocr_ready")
    /\ ocr_gap >= ocr_interval

\* C15, amended: the same, with the distance measured between the starts of
\* the two iterations (start = time.time(), line 47) in which the runs happen:
\* recognition runs only in an iteration that began at least the interval
\* after the iteration of the previous run began.
C15_RecognitionTicksApart ==
    /\ ocr_interval >= MinOcrIntervalMs
    /\ wpc = "ocr" => (enable_ocr /\ ocr_due)
    /\ ocr_got # "nothing" => (enable_ocr /\ ocr_due)
    /\ ~enable_ocr => (tick_ocrs = 0 /\ \A i \in 1..Len(queue) : queue[i].sig # "ocr_ready")

\* C15's case: a second recognition run of one worker has begun, in an
\* iteration found due, less than the interval after the first run began.
C15_Witness ==
    /\ wpc = "ocr" /\ ticks = 2 /\ enable_ocr /\ ocr_due
    /\ ocr_gap < ocr_interval

\* C16: the frame interval is at least 60 ms; an iteration whose work took
\* less than the interval sleeps exactly the remainder, and one whose work
\* took the interval or more does not sleep and the next iteration starts at
\* once; the sleep is never negative and depends on the work of the current
\* iteration only.
C16_SleepsTheRemainder ==
    /\ interval >= MinIntervalMs
    /\ (ticks > 0 /\ wpc \in {"sleep", "top"})
          => /\ sleep_t = Max2(0, interval - work)
             /\ sleep_t >= 0
    /\ wpc = "sleep" => (work < interval /\ sleep_t > 0 /\ busy <= sleep_t)

\* C16's case: the second iteration's work took part of the interval and the
\* worker sleeps the remainder, neither nothing nor the whole interval.
C16_Witness ==
    /\ ticks = 2 /\ wpc = "sleep"
    /\ 0 < work /\ work < interval
    /\ sleep_t = interval - work

\* C17: when recognition raises in an iteration, the worker emits no ocr_ready
\* for it and goes on to the rest of the iteration and to the next one, and
\* latest_ocr never takes the regions of such an iteration: it keeps the
\* value the last successful recognition delivered.
C17_RecognitionErrorAbsorbed ==
    /\ ocr_got = "raised" => (tick_ocrs = 0 /\ wpc \in {"after", "sleep", "top", "finished"})
    /\ \A i \in 1..Len(queue) :
          queue[i].sig = "ocr_ready" => queue[i].tick \notin failed_ticks
    /\ latest_ocr_tick \notin failed_ticks

\* C17's case: recognition succeeded in the first iteration and its regions
\* reached the window, it raised in the second, and the worker is back at the
\* top of its loop with latest_ocr unchanged.
C17_Witness ==
    /\ ticks = 2 /\ wpc = "top" /\ running
    /\ failed_ticks = {2}
    /\ latest_ocr_tick = 1

\* C18: no failure of capture, recognition or emission ends run(): the thread
\* never dies of an exception, and while the running flag is set it has not
\* left the loop.
C18_NoFailureIsFatal ==
    /\ wpc # "crashed"
    /\ wpc = "finished" => ~running

\* C21: when the handle of the capture target no longer resolves, the capture
\* returns None (get_window_rect gives None, capture.py lines 60-76, 87-89);
\* once the iteration that met it is over and the window has handled every
\* queued event, the status label reflects the loss, and the worker has
\* published nothing for that iteration and is still in its loop.
C21_LostTargetSurfaced ==
    (got = "none" /\ wpc \in {"after", "sleep", "top"})
        => /\ tick_frames = 0 /\ tick_ocrs = 0
           /\ (queue = <<>> /\ mpc = "idle") => status = "lost"

\* C32: every ocr_ready event is emitted after the frame_ready event of the
\* same iteration, recognition runs in the iteration whose capture gave the
\* frame and once that frame has been emitted (so never on an older frame),
\* and the first frame captured after the thread began starts a recognition
\* run when recognition is enabled.
C32_RecognitionFollowsItsFrame ==
    /\ [](/\ wpc = "ocr" => (got = "frame" /\ tick_frames = 1)
          /\ tick_ocrs <= tick_frames
          /\ \A j \in 1..Len(queue) :
                queue[j].sig = "ocr_ready"
                   => \A i \in 1..Len(queue) :
                         queue[i].sig = "frame_ready"
                            => (queue[i].tick <= queue[j].tick <=> i < j))
    /\ [][/\ (Len(queue') > Len(queue) /\ queue'[Len(queue')].sig = "ocr_ready")
                => /\ queue'[Len(queue')].tick = ticks
                   /\ got = "frame" /\ tick_frames = 1 /\ wpc = "ocr"
          /\ (enable_ocr /\ frames = 0 /\ frames' = 1) => wpc' = "ocr"]_vars

\* C32's case: the first iteration's capture gave None, the second gave the
\* first frame, and that iteration emitted frame_ready and then ocr_ready.
C32_Witness ==
    /\ enable_ocr /\ ticks = 2 /\ frames = 1
    /\ queue = <<[sig |-> "frame_ready", tick |-> 2], [sig |-> "ocr_ready", tick |-> 2]>>

(***************************************************************************)
(* frida_worker.py: TextractorWorker.run / on_message / stop, and the main *)
(* thread that starts and stops the worker.  The two threads interleave at *)
(* every statement.                                                        *)
(***************************************************************************)

\* Messages the injected script sends at most.
MaxMessages == 3

\* message['type'] of a message the script delivers to on_message.
MessageTypes == {"send", "error"}

\* TextractorWorker.__init__, lines 14-18: session and script are stored under
\* the names `session` and `script`; run() and stop() use `_session` and
\* `_script`, which do not exist until run() assigns them.
HInit ==
    /\ h_running = FALSE
    /\ hpc = "new"
    /\ has_session = FALSE
    /\ has_script = FALSE
    /\ session_attached = FALSE
    /\ script_loaded = FALSE
    /\ script_destroyed = FALSE
    /\ hmpc = "idle"
    /\ messages = <<>>
    /\ text_emitted = <<>>
    /\ h_stop_called = FALSE
    /\ h_stop_returned = FALSE
    /\ h_late_text = FALSE

\* The hook worker at rest, for the specifications of the other components.
HIdle == HInit

hattrs == <<has_session, has_script>>
hfrida == <<session_attached, script_loaded, script_destroyed>>
hhistory == <<messages, text_emitted, h_stop_called, h_stop_returned, h_late_text>>

\* start_textractor, lines 440 / 448: self.textractor_worker.start().
HStart ==
    /\ hmpc = "idle" /\ hpc = "new"
    /\ hpc' = "spawned"
    /\ UNCHANGED <<h_running, hattrs, hfrida, hmpc, hhistory, tvars, cvars, wvars, mvars,
                   pvars>>

\* run(), line 25: self._running = True.
HRunBegin ==
    /\ hpc = "spawned"
    /\ h_running' = TRUE
    /\ hpc' = "attach"
    /\ UNCHANGED <<hattrs, hfrida, hmpc, hhistory, tvars, cvars, wvars, mvars, pvars>>

\* Line 28: self._session = frida.attach(self.pid); an exception (no such
\* process, no permission) is printed and run() returns (lines 41-43).
HAttach ==
    /\ hpc = "attach"
    /\ \/ /\ session_attached' = TRUE
          /\ has_session' = TRUE
          /\ hpc' = "create"
       \/ /\ hpc' = "failed"
          /\ UNCHANGED <<session_attached, has_session>>
    /\ UNCHANGED <<h_running, has_script, script_loaded, script_destroyed, hmpc,
                   hhistory, tvars, cvars, wvars, mvars, pvars>>

\* Line 37: self._script = self._session.create_script(js).  The session is
\* attached here: stop() detaches it only once self._script exists.
HCreate ==
    /\ hpc = "create"
    /\ has_script' = TRUE
    /\ hpc' = "load"
    /\ UNCHANGED <<h_running, has_session, hfrida, hmpc, hhistory, tvars, cvars,
                   wvars, mvars, pvars>>

\* Lines 38-39: self._script.on("message", ...); self._script.load().  load()
\* raises on a script that was unloaded or whose session was detached.
HLoad ==
    /\ hpc = "load"
    /\ IF session_attached /\ ~script_destroyed
       THEN /\ script_loaded' = TRUE
            /\ hpc' = "loop"
       ELSE /\ hpc' = "failed"
            /\ UNCHANGED script_loaded
    /\ UNCHANGED <<h_running, hattrs, session_attached, script_destroyed, hmpc,
                   hhistory, tvars, cvars, wvars, mvars, pvars>>

\* Lines 45-46: while self._running: msleep(100).  The loop ends, and with it
\* the thread, when the flag is found cleared.
HLoopExit ==
    /\ hpc = "loop" /\ ~h_running
    /\ hpc' = "finished"
    /\ UNCHANGED <<h_running, hattrs, hfrida, hmpc, hhistory, tvars, cvars, wvars,
                   mvars, pvars>>

\* on_message, lines 49-56, called by frida for a message of the loaded
\* script: a message of type 'send' is emitted as text_ready with its
\* payload (the call is on frida's own thread, so the event is queued for
\* on_hook_text in the main thread); any other message is dropped.
on_message_any_type ==
    /\ script_loaded
    /\ Len(messages) < MaxMessages
    /\ \E type \in MessageTypes, payload \in Texts :
          /\ messages' = Append(messages, [type |-> type, payload |-> payload])
          /\ text_emitted' = Append(text_emitted, payload)
          /\ events' = Append(events, [sig |-> "text_ready", from |-> 1,
                                       data |-> payload])
          /\ h_late_text' = (h_late_text \/ h_stop_returned)
    /\ UNCHANGED <<h_running, hpc, hattrs, hfrida, hmpc, h_stop_called,
                   h_stop_returned, attached_hwnd, realtime_chk, hook_mode_chk,
                   worker, textractor_worker, cworkers, hworkers, blocked,
                   latest_ocr, ocr_results, table, hook_last_text,
                   hook_last_translation, last_translation, overlay, hook_sent,
                   hook_arrived, hook_since, translate_failed, selected, edit, saved, tvars, cvars,
                   wvars, pvars>>
on_message ==
    /\ script_loaded
    /\ Len(messages) < MaxMessages
    /\ \E type \in MessageTypes, payload \in Texts :
          /\ messages' = Append(messages, [type |-> type, payload |-> payload])
          /\ IF type = "send"
             THEN /\ text_emitted' = Append(text_emitted, payload)
                  /\ events' = Append(events, [sig |-> "text_ready", from |-> 1,
                                               data |-> payload])
                  /\ h_late_text' = (h_late_text \/ h_stop_returned)
             ELSE UNCHANGED <<text_emitted, events, h_late_text>>
    /\ UNCHANGED <<h_running, hpc, hattrs, hfrida, hmpc, h_stop_called,
                   h_stop_returned, attached_hwnd, realtime_chk, hook_mode_chk,
                   worker, textractor_worker, cworkers, hworkers, blocked,
                   latest_ocr, ocr_results, table, hook_last_text,
                   hook_last_translation, last_translation, overlay, hook_sent,
                   hook_arrived, hook_since, translate_failed, selected, edit, saved, tvars, cvars,
                   wvars, pvars>>

\* stop(), line 64, called once on a started worker: self._running = False.
HStopBegin ==
    /\ hmpc = "idle" /\ hpc # "new" /\ ~h_stop_called
    /\ h_running' = FALSE
    /\ hmpc' = "stop_unload"
    /\ h_stop_called' = TRUE
    /\ UNCHANGED <<hpc, hattrs, hfrida, messages, text_emitted, h_stop_returned,
                   h_late_text, tvars, cvars, wvars, mvars, pvars>>

\* Lines 66-68: if self._script: self._script.unload().  Reading the attribute
\* raises AttributeError while run() has not assigned it, and `except
\* Exception: pass` (lines 71-72) then skips the detach as well.
HStopUnload ==
    /\ hmpc = "stop_unload"
    /\ IF has_script
       THEN /\ script_loaded' = FALSE
            /\ script_destroyed' = TRUE
            /\ hmpc' = "stop_detach"
       ELSE /\ hmpc' = "stop_wait"
            /\ UNCHANGED <<script_loaded, script_destroyed>>
    /\ UNCHANGED <<h_running, hpc, hattrs, session_attached, hhistory, tvars,
                   cvars, wvars, mvars, pvars>>

\* Lines 69-70: if self._session: self._session.detach(); the session's
\* scripts go with it.
HStopDetach ==
    /\ hmpc = "stop_detach"
    /\ session_attached' = FALSE
    /\ script_loaded' = FALSE
    /\ script_destroyed' = TRUE
    /\ hmpc' = "stop_wait"
    /\ UNCHANGED <<h_running, hpc, hattrs, hhistory, tvars, cvars, wvars, mvars, pvars>>

\* Lines 73-74: self.wait() has no timeout: it returns when run() has returned.
HStopReturn ==
    /\ hmpc = "stop_wait"
    /\ hpc \in {"finished", "failed"}
    /\ hmpc' = "idle"
    /\ h_stop_returned' = TRUE
    /\ UNCHANGED <<h_running, hpc, hattrs, hfrida, messages, text_emitted,
                   h_stop_called, h_late_text, tvars, cvars, wvars, mvars,
                   pvars>>

(***************************************************************************)
(* Claims about TextractorWorker                                           *)
(***************************************************************************)

\* C12: when stop() has returned, the script that run() loaded has been
\* unloaded and the session detached, and no text_ready is emitted afterwards,
\* at whatever point of run() stop() was called.
C12_TornDownAfterStop ==
    h_stop_returned => /\ ~script_loaded
                       /\ ~session_attached
                       /\ ~h_late_text

\* C13: stop() never hangs its caller: the main thread is never waiting in
\* stop() for a hook thread that loops with its running flag set, the state
\* in which neither thread can take another step of stop() or leave the loop.
C13_StopNeverHangs ==
    ~(hmpc = "stop_wait" /\ hpc = "loop" /\ h_running)

(***************************************************************************)
(* main.py: MainWindow.  The handlers run in the main thread, one at a     *)
(* time and each to its end; the worker threads run beside them and reach  *)
(* the window only through queued events.  A worker is seen here by what   *)
(* stop() leaves of it: a CaptureWorker whose stop() timed out is still    *)
(* inside its iteration ("lingering") and emits what that iteration emits; *)
(* a TextractorWorker stopped before run() created its script keeps the    *)
(* script it then loads ("leaked"), and one stopped before run() began     *)
(* keeps the main thread in wait() for ever (blocked).                     *)
(***************************************************************************)

\* CaptureWorker and TextractorWorker objects the window creates at most.
MaxCaptureWorkers == 2
MaxHookWorkers == 1
\* Events queued for the window at most, and lines the hook delivers at most.
MaxEvents == 1
MaxHookLines == 1

\* Region lists ocr_image_data returns: texts are stripped and not blank.
OcrLists == {<<>>, <<[text |-> <<"h", "i">>, bbox |-> <<1, 2, 30, 10>>]>>}
\* Lines the hook delivers: an ordinary line and a whitespace-only line.
HookLines == Texts
\* pil_img.size of a captured frame.
FrameSizes == {<<100, 100>>}

\* The translation the provider gives in the window's runs.
WindowReply == <<"o", "k">>

\* What translate_text(src, dst, text) gives its caller: a value (the
\* translation, the text itself, or "" for a blank text), or None for an
\* exception.
TranslateResults(text) ==
    {o.value : o \in {x \in google_translate(text) :
                          x.kind = "ok" => x.value = WindowReply}}

\* on_frame_ready, lines 520-521: the box of the hook line on a w x h frame.
HookBox(size) ==
    <<(size[1] * 5) \div 100, (size[2] * 70) \div 100,
      (size[1] * 90) \div 100, (size[2] * 22) \div 100>>

MInit ==
    /\ attached_hwnd = FALSE
    /\ realtime_chk = FALSE
    /\ hook_mode_chk = FALSE
    /\ worker = 0
    /\ textractor_worker = 0
    /\ cworkers = <<>>
    /\ hworkers = <<>>
    /\ blocked = FALSE
    /\ events = <<>>
    /\ latest_ocr = <<>>
    /\ ocr_results = <<>>
    /\ table = <<>>
    /\ hook_last_text = <<>>
    /\ hook_last_translation = <<>>
    /\ last_translation = None
    /\ overlay = <<>>
    /\ hook_arrived = FALSE
    /\ hook_sent = 0
    /\ hook_since = FALSE
    /\ translate_failed = {}
    /\ selected = 0
    /\ edit = <<>>
    /\ saved = <<>>

\* The window at rest, for the specifications of the other components.
MIdle == MInit

\* The window once the user has checked "Real-time OCR" and attached a window:
\* attach_window (line 323) has run start_worker, which created and started
\* the first capture worker, with recognition.
MAttached ==
    /\ attached_hwnd = TRUE
    /\ realtime_chk = TRUE
    /\ hook_mode_chk = FALSE
    /\ worker = 1
    /\ textractor_worker = 0
    /\ cworkers = <<[ocr |-> TRUE, st |-> "running"]>>
    /\ hworkers = <<>>
    /\ blocked = FALSE
    /\ events = <<>>
    /\ latest_ocr = <<>>
    /\ ocr_results = <<>>
    /\ table = <<>>
    /\ hook_last_text = <<>>
    /\ hook_last_translation = <<>>
    /\ last_translation = None
    /\ overlay = <<>>
    /\ hook_arrived = FALSE
    /\ hook_sent = 0
    /\ hook_since = FALSE
    /\ translate_failed = {}
    /\ selected = 0
    /\ edit = <<>>
    /\ saved = <<>>

mwin == <<attached_hwnd, realtime_chk, hook_mode_chk, worker, textractor_worker,
          cworkers, hworkers, blocked>>
mdata == <<latest_ocr, ocr_results, table, hook_last_text, hook_last_translation,
           last_translation, overlay>>
mhist == <<hook_arrived, hook_since, translate_failed>>
medit == <<selected, edit, saved>>

\* The fields the handlers that start and stop workers read and write.
Window ==
    [attached_hwnd |-> attached_hwnd, realtime_chk |-> realtime_chk,
     hook_mode_chk |-> hook_mode_chk, worker |-> worker,
     textractor_worker |-> textractor_worker, cworkers |-> cworkers,
     hworkers |-> hworkers, blocked |-> blocked]

\* The handler ends (or stays in wait() for ever) with the window as W.
Becomes(W) ==
    /\ Len(W.cworkers) <= MaxCaptureWorkers
    /\ Len(W.hworkers) <= MaxHookWorkers
    /\ attached_hwnd' = W.attached_hwnd
    /\ realtime_chk' = W.realtime_chk
    /\ hook_mode_chk' = W.hook_mode_chk
    /\ worker' = W.worker
    /\ textractor_worker' = W.textractor_worker
    /\ cworkers' = W.cworkers
    /\ hworkers' = W.hworkers
    /\ blocked' = W.blocked

\* How the calls of stop() inside one handler turn out: whether the capture
\* thread ended within wait(2000), whether frida.attach succeeds in a hook
\* thread that is still starting, and whether get_pid_from_hwnd finds a pid.
Chances == [ended : BOOLEAN, attach_ok : BOOLEAN, pid_ok : BOOLEAN]

\* CaptureWorker.stop(), lines 65-71, on self.worker.
capture_stopped(W, ch) ==
    [W EXCEPT !.cworkers[W.worker].st =
        IF @ = "finished" \/ ch.ended THEN "finished" ELSE "lingering"]

\* TextractorWorker.stop(), frida_worker.py lines 59-76, on
\* self.textractor_worker: a clean teardown once the script exists; before
\* that nothing is torn down, and wait() returns only if run() returns.
hook_stopped(W, ch) ==
    LET st == W.hworkers[W.textractor_worker].st IN
    CASE st = "hooked" -> [W EXCEPT !.hworkers[W.textractor_worker].st = "stopped"]
      [] st = "starting" ->
            [W EXCEPT !.hworkers[W.textractor_worker].st =
                IF ch.attach_ok THEN "leaked" ELSE "failed"]
      [] st = "spawned" ->
            IF ch.attach_ok
            THEN [W EXCEPT !.hworkers[W.textractor_worker].st = "hooked",
                           !.blocked = TRUE]
            ELSE [W EXCEPT !.hworkers[W.textractor_worker].st = "failed"]
      [] OTHER -> W

\* stop_worker, lines 383-393.
stop_worker(W, ch) ==
    LET W1 == IF W.worker # 0
              THEN [capture_stopped(W, ch) EXCEPT !.worker = 0]
              ELSE W
        W2 == IF W1.textractor_worker # 0
              THEN hook_stopped(W1, ch)
              ELSE W1
    IN IF W2.blocked \/ W2.textractor_worker = 0 THEN W2
       ELSE [W2 EXCEPT !.textractor_worker = 0]

\* start_worker, line 368: enable_ocr.
EnableOcrIgnoringHook(W) == W.realtime_chk
EnableOcr(W) == W.realtime_chk /\ ~W.hook_mode_chk

\* start_worker, lines 357-381.
start_worker(W, ch) ==
    IF ~W.attached_hwnd THEN W
    ELSE LET W1 == stop_worker(W, ch) IN
         IF W1.blocked THEN W1
         ELSE [W1 EXCEPT !.cworkers = Append(@, [ocr |-> EnableOcr(W1), st |-> "running"]),
                         !.worker = Len(W1.cworkers) + 1]

\* start_textractor, lines 414-454.
start_textractor(W, ch) ==
    IF ~W.attached_hwnd \/ W.blocked THEN W
    ELSE LET W1 == IF W.textractor_worker # 0 THEN hook_stopped(W, ch) ELSE W
             W2 == IF W1.blocked THEN W1 ELSE [W1 EXCEPT !.textractor_worker = 0]
         IN IF W2.blocked THEN W2
            ELSE IF (platform = "win" /\ ch.pid_ok) \/ platform = "mac"
            THEN [W2 EXCEPT !.hworkers = Append(@, [st |-> "spawned"]),
                            !.textractor_worker = Len(W2.hworkers) + 1]
            ELSE W2

\* stop_textractor, lines 456-464.
stop_textractor(W, ch) ==
    IF W.textractor_worker = 0 \/ W.blocked THEN W
    ELSE LET W1 == hook_stopped(W, ch) IN
         IF W1.blocked THEN W1 ELSE [W1 EXCEPT !.textractor_worker = 0]

\* attach_window, lines 311-325, with a window selected.
attach_window ==
    /\ ~blocked
    /\ \E ch \in Chances :
          LET W0 == [Window EXCEPT !.attached_hwnd = TRUE]
              W1 == IF W0.realtime_chk THEN start_worker(W0, ch) ELSE W0
              W2 == IF W1.hook_mode_chk /\ ~W1.blocked THEN start_textractor(W1, ch) ELSE W1
          IN Becomes(W2)
    /\ UNCHANGED <<events, mdata, hook_sent, mhist, medit, tvars, cvars, wvars, hvars, pvars>>

\* The user toggles "Real-time OCR": on_realtime_changed, lines 395-404.
on_realtime_changed ==
    /\ ~blocked
    /\ \E ch \in Chances :
          LET W0 == [Window EXCEPT !.realtime_chk = ~realtime_chk]
          IN Becomes(IF W0.realtime_chk THEN start_worker(W0, ch)
                     ELSE stop_worker(W0, ch))
    /\ UNCHANGED <<events, mdata, hook_sent, mhist, medit, tvars, cvars, wvars, hvars, pvars>>

\* The user changes a spin box: on_interval_changed, lines 406-412.
on_interval_changed ==
    /\ ~blocked
    /\ \E ch \in Chances :
          Becomes(IF worker # 0 THEN start_worker(Window, ch) ELSE Window)
    /\ UNCHANGED <<events, mdata, hook_sent, mhist, medit, tvars, cvars, wvars, hvars, pvars>>

\* The user picks another source language: on_src_lang_changed, lines 602-608.
on_src_lang_changed ==
    /\ ~blocked
    /\ \E ch \in Chances :
          Becomes(IF worker # 0 THEN start_worker(Window, ch) ELSE Window)
    /\ UNCHANGED <<events, mdata, hook_sent, mhist, medit, tvars, cvars, wvars, hvars, pvars>>

\* The user toggles "Use Textractor hook": on_hook_mode_changed, lines
\* 466-477.
on_hook_mode_changed ==
    /\ ~blocked
    /\ \E ch \in Chances :
          LET W0 == [Window EXCEPT !.hook_mode_chk = ~hook_mode_chk]
              W1 == IF W0.worker # 0 THEN start_worker(W0, ch) ELSE W0
              W2 == IF W1.blocked THEN W1
                    ELSE IF W1.hook_mode_chk /\ W1.attached_hwnd
                    THEN start_textractor(W1, ch)
                    ELSE stop_textractor(W1, ch)
          IN /\ Becomes(W2)
             /\ hook_since' = /\ W2.hook_mode_chk /\ ~W2.blocked
                              /\ worker # 0 /\ cworkers[worker].ocr
                              /\ cworkers[worker].st = "running"
    /\ UNCHANGED <<events, mdata, hook_sent, hook_arrived, translate_failed, medit, tvars, cvars, wvars, hvars,
                   pvars>>

\* A signal emitted in a worker thread is queued for the window; nothing
\* ever disconnects it.
Queued(ev) ==
    /\ Len(events) < MaxEvents
    /\ events' = Append(events, ev)

\* CaptureWorker.run, line 50, in a thread that has not ended.
CWEmitFrame ==
    /\ \E i \in 1..Len(cworkers), size \in FrameSizes :
          /\ cworkers[i].st \in {"running", "lingering"}
          /\ Queued([sig |-> "frame_ready", from |-> i, data |-> size])
    /\ UNCHANGED <<mwin, mdata, mhist, medit, hook_sent, tvars, cvars, wvars, hvars, pvars>>

\* CaptureWorker.run, line 55: only a worker with enable_ocr has ocr_ready
\* connected (start_worker, lines 378-379) and runs recognition.
CWEmitOcr ==
    /\ \E i \in 1..Len(cworkers), data \in OcrLists :
          /\ cworkers[i].st \in {"running", "lingering"}
          /\ cworkers[i].ocr
          /\ Queued([sig |-> "ocr_ready", from |-> i, data |-> data])
    /\ UNCHANGED <<mwin, mdata, mhist, medit, hook_sent, tvars, cvars, wvars, hvars, pvars>>

\* CaptureWorker.run ends: the stopped worker's iteration is over (line 46),
\* or capture_window_image raised (line 48).
CWEnd ==
    /\ \E i \in 1..Len(cworkers) :
          /\ cworkers[i].st \in {"running", "lingering"}
          /\ cworkers' = [cworkers EXCEPT ![i].st = "finished"]
    /\ UNCHANGED <<attached_hwnd, realtime_chk, hook_mode_chk, worker,
                   textractor_worker, hworkers, blocked, events, mdata, mhist, medit,
                   hook_sent, tvars, cvars, wvars, hvars, pvars>>

\* TextractorWorker.run, frida_worker.py line 25: the thread begins.
HWRun ==
    /\ \E i \in 1..Len(hworkers) :
          /\ hworkers[i].st = "spawned"
          /\ hworkers' = [hworkers EXCEPT ![i].st = "starting"]
    /\ UNCHANGED <<attached_hwnd, realtime_chk, hook_mode_chk, worker,
                   textractor_worker, cworkers, blocked, events, mdata, mhist, medit,
                   hook_sent, tvars, cvars, wvars, hvars, pvars>>

\* TextractorWorker.run, frida_worker.py lines 27-43: attach, create and load
\* the script, or fail and return.
HWHook ==
    /\ \E i \in 1..Len(hworkers), ok \in BOOLEAN :
          /\ hworkers[i].st = "starting"
          /\ hworkers' = [hworkers EXCEPT ![i].st = IF ok THEN "hooked" ELSE "failed"]
    /\ UNCHANGED <<attached_hwnd, realtime_chk, hook_mode_chk, worker,
                   textractor_worker, cworkers, blocked, events, mdata, mhist, medit,
                   hook_sent, tvars, cvars, wvars, hvars, pvars>>

\* TextractorWorker.on_message, frida_worker.py lines 54-56: a loaded script
\* sends a line and text_ready is emitted.
HWEmitText ==
    /\ hook_sent < MaxHookLines
    /\ \E i \in 1..Len(hworkers), text \in HookLines :
          /\ hworkers[i].st \in {"hooked", "leaked"}
          /\ Queued([sig |-> "text_ready", from |-> i, data |-> text])
    /\ hook_sent' = hook_sent + 1
    /\ UNCHANGED <<mwin, mdata, mhist, medit, tvars, cvars, wvars, hvars, pvars>>

\* on_frame_ready, lines 527-538: the overlay entries of the regions.  Each
\* region's text goes through translate_signal to translate_and_update (lines
\* 618-624), which stores translate_text's value in self.last_translation or
\* raises; the entry takes self.last_translation, or the text when the
\* exception reaches line 533 or the attribute does not exist yet.
RECURSIVE RegionOverlay(_, _, _)
RegionOverlay(regions, outs, last) ==
    IF regions = <<>> THEN [overlay |-> <<>>, last |-> last]
    ELSE LET e == Head(regions)
             o == Head(outs)
             last1 == IF o.value # None THEN o.value ELSE last
             trans == IF (o.value = None /\ o.propagates) \/ last1 = None
                      THEN e.text ELSE last1
             rest == RegionOverlay(Tail(regions), Tail(outs), last1)
         IN [overlay |-> <<[text |-> e.text, bbox |-> e.bbox, translation |-> trans]>>
                         \o rest.overlay,
             last |-> rest.last]

\* For each region, what translate_text does and, if it raises, whether the
\* exception leaves translate_signal.emit.
RegionOutcomes(regions) ==
    {outs \in [1..Len(regions) -> [value : {WindowReply, None} \cup Texts, propagates : BOOLEAN]] :
        \A i \in 1..Len(regions) :
            /\ outs[i].value \in TranslateResults(regions[i].text)
            /\ outs[i].value # None => ~outs[i].propagates}

\* on_frame_ready, line 519: the hook line is drawn instead of the regions.
ShowsHookLine == hook_mode_chk /\ hook_last_translation # <<>>

\* The event loop delivers a frame_ready event: on_frame_ready, lines 509-542.
on_frame_ready ==
    /\ ~blocked
    /\ events # <<>> /\ Head(events).sig = "frame_ready"
    /\ events' = Tail(events)
    /\ IF ShowsHookLine
       THEN /\ overlay' = <<[text |-> hook_last_text,
                             bbox |-> HookBox(Head(events).data),
                             translation |-> hook_last_translation]>>
            /\ translate_failed' = {}
            /\ UNCHANGED last_translation
       ELSE \E outs \in RegionOutcomes(latest_ocr) :
               LET r == RegionOverlay(latest_ocr, outs, last_translation) IN
               /\ overlay' = r.overlay
               /\ last_translation' = r.last
               /\ translate_failed' = {i \in 1..Len(latest_ocr) : outs[i].value = None}
    /\ UNCHANGED <<mwin, latest_ocr, ocr_results, table, hook_last_text,
                   hook_last_translation, hook_arrived, hook_since, medit, hook_sent, tvars, cvars, wvars, hvars,
                   pvars>>

\* on_ocr_ready, lines 553-558: the table rows of the regions.
RECURSIVE RegionRows(_)
RegionRows(entries) ==
    IF entries = <<>> THEN <<>>
    ELSE <<[c0 |-> Head(entries).text, c1 |-> "unknown", c2 |-> <<>>,
            c3 |-> ToString(Head(entries).bbox)]>> \o RegionRows(Tail(entries))

\* on_ocr_ready, lines 559-564: the records of the regions in ocr_results.
RECURSIVE RegionRecords(_)
RegionRecords(entries) ==
    IF entries = <<>> THEN <<>>
    ELSE <<[text |-> Head(entries).text, bbox |-> Head(entries).bbox,
            lang |-> "unknown", translation |-> <<>>]>>
         \o RegionRecords(Tail(entries))

\* The event loop delivers an ocr_ready event: on_ocr_ready, lines 544-565.
on_ocr_ready_keeping_rows ==
    /\ ~blocked
    /\ events # <<>> /\ Head(events).sig = "ocr_ready"
    /\ events' = Tail(events)
    /\ latest_ocr' = Head(events).data
    /\ ocr_results' = ocr_results \o RegionRecords(Head(events).data)
    /\ table' = table \o RegionRows(Head(events).data)
    /\ selected' = 0
    /\ UNCHANGED <<mwin, hook_last_text, hook_last_translation, last_translation,
                   overlay, mhist, edit, saved, hook_sent,
                   tvars, cvars, wvars, hvars, pvars>>
on_ocr_ready ==
    /\ ~blocked
    /\ events # <<>> /\ Head(events).sig = "ocr_ready"
    /\ events' = Tail(events)
    /\ latest_ocr' = Head(events).data
    /\ ocr_results' = RegionRecords(Head(events).data)
    /\ table' = RegionRows(Head(events).data)
    /\ selected' = 0
    /\ UNCHANGED <<mwin, hook_last_text, hook_last_translation, last_translation,
                   overlay, mhist, edit, saved, hook_sent,
                   tvars, cvars, wvars, hvars, pvars>>

\* The event loop delivers a text_ready event: on_hook_text, lines 479-507.
on_hook_text_row_only ==
    /\ ~blocked
    /\ events # <<>> /\ Head(events).sig = "text_ready"
    /\ events' = Tail(events)
    /\ \E r \in TranslateResults(Head(events).data) :
          LET text == Head(events).data
              trans == IF r = None THEN text ELSE r
          IN /\ hook_last_text' = text
             /\ hook_last_translation' = trans
             /\ table' = Append(table, [c0 |-> text, c1 |-> "hook", c2 |-> trans,
                                        c3 |-> "hook"])
             /\ ocr_results' = ocr_results
    /\ hook_arrived' = TRUE
    /\ UNCHANGED <<mwin, latest_ocr, last_translation, overlay, hook_since,
                   translate_failed, medit, hook_sent, tvars, cvars, wvars, hvars, pvars>>
on_hook_text ==
    /\ ~blocked
    /\ events # <<>> /\ Head(events).sig = "text_ready"
    /\ events' = Tail(events)
    /\ \E r \in TranslateResults(Head(events).data) :
          LET text == Head(events).data
              trans == IF r = None THEN text ELSE r
          IN /\ hook_last_text' = text
             /\ hook_last_translation' = trans
             /\ table' = Append(table, [c0 |-> text, c1 |-> "hook", c2 |-> trans,
                                        c3 |-> "hook"])
             /\ ocr_results' = Append(ocr_results,
                                      [text |-> text, bbox |-> <<0, 0, 0, 0>>,
                                       lang |-> "hook", translation |-> trans])
    /\ hook_arrived' = TRUE
    /\ UNCHANGED <<mwin, latest_ocr, last_translation, overlay, hook_since,
                   translate_failed, medit,
                   hook_sent, tvars, cvars, wvars, hvars, pvars>>

\* What the user types into the edit box: a translation with a trailing blank.
EditTexts == {<<"n", "o", " ">>}

\* The user selects another row of the table (by its header); the table emits
\* itemSelectionChanged: on_select, lines 567-576.
on_select ==
    /\ ~blocked
    /\ \E r \in 1..Len(table) :
          /\ r # selected
          /\ selected' = r
          /\ edit' = IF r <= Len(ocr_results) THEN ocr_results[r].translation ELSE edit
    /\ UNCHANGED <<mwin, events, mdata, mhist, hook_sent, saved, tvars, cvars, wvars,
                   hvars, pvars>>

\* The user replaces the text of the edit box.
UserTypes ==
    /\ ~blocked
    /\ \E text \in EditTexts : edit # text /\ edit' = text
    /\ UNCHANGED <<mwin, events, mdata, mhist, hook_sent, selected, saved, tvars, cvars,
                   wvars, hvars, pvars>>

\* The user clicks "Apply": apply_translation, lines 578-591.
apply_translation ==
    /\ ~blocked
    /\ IF selected = 0 \/ selected > Len(ocr_results)
       THEN UNCHANGED <<ocr_results, table>>
       ELSE /\ ocr_results' = [ocr_results EXCEPT ![selected].translation = strip(edit)]
            /\ table' = [table EXCEPT ![selected].c2 = strip(edit)]
    /\ UNCHANGED <<mwin, events, latest_ocr, hook_last_text, hook_last_translation,
                   last_translation, overlay, mhist, medit, hook_sent, tvars, cvars,
                   wvars, hvars, pvars>>

\* The user clicks "Save": save_translations, lines 593-600, writes the
\* records of ocr_results to translations.json.
save_translations ==
    /\ ~blocked
    /\ saved' = <<ocr_results>>
    /\ UNCHANGED <<mwin, events, mdata, mhist, hook_sent, selected, edit, tvars, cvars,
                   wvars, hvars, pvars>>

\* The hook worker's text_ready event reaches on_hook_text when the main
\* thread is in its event loop, not inside TextractorWorker.stop().
HDeliver == hmpc = "idle" /\ on_hook_text

(***************************************************************************)
(* Claims about MainWindow                                                 *)
(***************************************************************************)

\* A step of the event loop that runs the slot of a queued event of `sig`.
Delivers(sig) ==
    /\ events # <<>> /\ Head(events).sig = sig
    /\ events' = Tail(events)

\* C11: once on_hook_mode_changed has handled the checking of the hook box
\* while a capture worker with recognition was running, on_ocr_ready
\* processes no ocr_ready event until the box is unchecked again, events of
\* the stopped worker included.
C11_NoRecognitionInHookMode ==
    [][hook_since => ~Delivers("ocr_ready")]_vars

\* C19: an overlay computed by on_frame_ready while the hook box is checked
\* holds no region of latest_ocr, only the most recent hook line, and holds
\* that line once one has arrived, also when its translation is "".
C19_HookOverlayOnly ==
    [][(hook_mode_chk /\ Delivers("frame_ready"))
          => /\ \A i \in 1..Len(overlay') :
                   overlay'[i] = [text |-> hook_last_text,
                                  bbox |-> HookBox(Head(events).data),
                                  translation |-> hook_last_translation]
             /\ hook_arrived => Len(overlay') = 1]_vars

\* C20: when on_hook_mode_changed completes having checked the hook box
\* while a capture worker existed, self.worker is a new, started and not
\* stopped capture worker without recognition, and the hook worker the
\* handler started (on macOS always) is self.textractor_worker, started and
\* not stopped.
C20_HookModeKeepsFrames ==
    [][(~hook_mode_chk /\ hook_mode_chk' /\ worker # 0 /\ ~blocked')
          => /\ worker' = Len(cworkers) + 1
             /\ cworkers'[worker'].st = "running"
             /\ ~cworkers'[worker'].ocr
             /\ platform = "mac" => textractor_worker' # 0
             /\ textractor_worker' # 0
                   => /\ textractor_worker' = Len(hworkers) + 1
                      /\ hworkers'[textractor_worker'].st = "spawned"]_vars

\* C20's case: on_hook_mode_changed has completed with the box checked over
\* a running capture worker with recognition, has replaced it by one without
\* recognition and has started a hook worker.
C20_Witness ==
    /\ hook_since /\ hook_mode_chk
    /\ worker = 2 /\ cworkers[2].st = "running" /\ ~cworkers[2].ocr
    /\ cworkers[1].ocr
    /\ textractor_worker # 0 /\ hworkers[textractor_worker].st = "spawned"

\* C31: apply_translation on a selected row r puts the text of the edit box
\* (stripped) into ocr_results[r] and into the row's translation cell; from
\* then on, until on_ocr_ready replaces the region list, the overlay that
\* on_frame_ready builds shows that translation for the region of row r, and
\* save_translations exports the records of ocr_results as they are.
C31_AppliedTranslationShown ==
    [][/\ (apply_translation /\ selected # 0)
             => /\ ocr_results'[selected].translation = strip(edit)
                /\ table'[selected].c2 = strip(edit)
       /\ save_translations => saved' = <<ocr_results>>
       /\ (Delivers("frame_ready") /\ ~hook_mode_chk)
             => \A i \in 1..Len(latest_ocr) :
                   ocr_results[i].translation # <<>>
                      => overlay'[i].translation = ocr_results[i].translation]_vars

\* C33: every overlay entry on_frame_ready builds from the region list
\* carries the region's text and bbox with what translate_text gave for that
\* text in this call of on_frame_ready, or with the text itself when that
\* call raised; never a value left by another region's or an earlier frame's
\* call.
C33_EntryPairsOwnTranslation ==
    [][(Delivers("frame_ready") /\ ~ShowsHookLine)
          => /\ Len(overlay') = Len(latest_ocr)
             /\ \A i \in 1..Len(latest_ocr) :
                   /\ overlay'[i].text = latest_ocr[i].text
                   /\ overlay'[i].bbox = latest_ocr[i].bbox
                   /\ IF i \in translate_failed'
                      THEN overlay'[i].translation = latest_ocr[i].text
                      ELSE overlay'[i].translation
                              \in TranslateResults(latest_ocr[i].text) \ {None}]_vars

\* C34: a handler that starts with the hook box checked, a window attached
\* and a hook worker referenced, that restarts the capture worker (attach,
\* interval change, source-language change, checkbox) and leaves the hook
\* box checked, leaves a hook worker referenced that nothing has stopped.
C34_HookSurvivesReconfiguration ==
    [][(/\ hook_mode_chk /\ hook_mode_chk' /\ attached_hwnd
        /\ textractor_worker # 0 /\ ~blocked'
        /\ worker # 0 /\ worker' # 0 /\ worker' # worker)
          => /\ textractor_worker' # 0
             /\ hworkers'[textractor_worker'].st \notin {"stopped", "leaked"}]_vars

\* C35: whatever on_ocr_ready, on_hook_text and apply_translation have done,
\* the table has as many rows as ocr_results has records, row r shows the
\* text of record r, the selected row (the index on_select and
\* apply_translation use) is an index of ocr_results, and every record has
\* exactly the fields text, bbox, lang and translation.
C35_TableMatchesResults ==
    /\ Len(table) = Len(ocr_results)
    /\ selected \in 0..Len(ocr_results)
    /\ \A r \in 1..Len(ocr_results) :
          /\ r <= Len(table) => table[r].c0 = ocr_results[r].text
          /\ DOMAIN ocr_results[r] = {"text", "bbox", "lang", "translation"}

\* C35's case: a region row whose translation was applied from the edit box,
\* followed by the row of a hook line, which is the selected one.
C35_Witness ==
    /\ Len(table) = 2 /\ Len(ocr_results) = 2 /\ selected = 2
    /\ ocr_results[1].lang = "unknown" /\ ocr_results[1].translation = <<"n", "o">>
    /\ table[1].c2 = <<"n", "o">>
    /\ ocr_results[2].lang = "hook" /\ table[2].c1 = "hook"

\* C26: on_ocr_ready(entries) replaces the region list wholesale: after it,
\* latest_ocr is the event's list, and ocr_results and the table rows match
\* its entries one to one and in order, with nothing of the previous list
\* left, rows added by hook events included.
C26_RegionsReplacedWholesale ==
    [][Delivers("ocr_ready")
          => LET entries == Head(events).data
             IN /\ latest_ocr' = entries
                /\ Len(ocr_results') = Len(entries)
                /\ Len(table') = Len(entries)
                /\ \A i \in 1..Len(entries) :
                      /\ ocr_results'[i].text = entries[i].text
                      /\ ocr_results'[i].bbox = entries[i].bbox
                      /\ ocr_results'[i].lang # "hook"
                      /\ table'[i].c0 = entries[i].text
                      /\ table'[i].c1 # "hook"
                      /\ table'[i].c3 = ToString(entries[i].bbox)]_vars

\* C26's case: a hook line had added its row and record, and a later
\* ocr_ready event with one region left exactly that region's row and record.
C26_Witness ==
    /\ hook_arrived
    /\ Len(latest_ocr) = 1
    /\ Len(table) = 1 /\ table[1].c1 = "unknown" /\ table[1].c0 = latest_ocr[1].text
    /\ Len(ocr_results) = 1 /\ ocr_results[1].lang = "unknown"

\* The values on_hook_text can give hook_last_translation for a line: what
\* translate_text returns for it, or the line itself if translate_text raises.
C29_Translations(text) ==
    {IF r = None THEN text ELSE r : r \in TranslateResults(text)}

\* C29: for every message of type 'send' the hook worker emits exactly one
\* text_ready event carrying the payload, and none for other messages;
\* on_hook_text sets hook_last_text to the event's text and
\* hook_last_translation to its translation (the text itself if translating
\* raised), so that both always belong to the most recent event handled.
C29_OneEventPerSendMessage ==
    LET sends == SelectSeq(messages, LAMBDA m : m.type = "send")
        handled == Len(text_emitted) - Len(events)
    IN /\ Len(text_emitted) = Len(sends)
       /\ \A i \in 1..Len(sends) : text_emitted[i] = sends[i].payload
       /\ \A i \in 1..Len(events) :
             /\ events[i].sig = "text_ready"
             /\ events[i].data = text_emitted[handled + i]
       /\ handled > 0 =>
             /\ hook_last_text = text_emitted[handled]
             /\ hook_last_translation \in C29_Translations(text_emitted[handled])

\* C29's case: the script sent a 'send' message, a message of another type
\* and a 'send' message with a different payload; one event was emitted for
\* each of the two, and on_hook_text has handled both and holds the second
\* line with a translation of it that is no translation of the first.
C29_Witness ==
    /\ Len(messages) = 3 /\ events = <<>>
    /\ messages[1].type = "send" /\ messages[2].type = "error"
    /\ messages[3].type = "send"
    /\ messages[1].payload # messages[3].payload
    /\ text_emitted = <<messages[1].payload, messages[3].payload>>
    /\ hook_last_text = messages[3].payload
    /\ hook_last_translation \notin C29_Translations(messages[1].payload)

(***************************************************************************)
(* Functions of one input: each is applied once to an input drawn when the *)
(* behaviour begins.                                                       *)
(***************************************************************************)

\* ocr_backend.py line 32: frames wider than this are downscaled.
MaxOcrWidth == 1600
\* ocr_backend.py line 67: boxes narrower or lower than this are dropped.
MinBoxSide == 5

\* Items of the kind the engine returns, (bbox, text, score) with bbox a list
\* of points.  The engine's coordinates are floats: they are counted here in
\* half pixels, so <<1, 0>> is the point (0.5, 0).  In order: an item without
\* text, a 3x3 "Hi", a 20x20 "OK", a slanted quadrilateral whose text has
\* blanks around it, a box from x = 0.5 to x = 5, a blank text, an item that
\* is no triple, an item without points, and a 100x50 box at (200, 100).
OcrItems ==
    << [n |-> 3, bbox |-> <<<<0, 0>>, <<40, 0>>, <<40, 40>>, <<0, 40>>>>, text |-> <<>>],
       [n |-> 3, bbox |-> <<<<0, 0>>, <<6, 0>>, <<6, 6>>, <<0, 6>>>>, text |-> <<"H", "i">>],
       [n |-> 3, bbox |-> <<<<0, 0>>, <<40, 0>>, <<40, 40>>, <<0, 40>>>>, text |-> <<"O", "K">>],
       [n |-> 3, bbox |-> <<<<20, 20>>, <<120, 40>>, <<110, 100>>, <<10, 80>>>>,
        text |-> <<" ", "h", "i", " ">>],
       [n |-> 3, bbox |-> <<<<1, 0>>, <<10, 0>>, <<10, 20>>, <<1, 20>>>>, text |-> <<"h", "i">>],
       [n |-> 3, bbox |-> <<<<0, 0>>, <<40, 0>>, <<40, 40>>, <<0, 40>>>>, text |-> <<" ">>],
       [n |-> 2, bbox |-> <<<<0, 0>>, <<40, 0>>, <<40, 40>>, <<0, 40>>>>, text |-> <<"h", "i">>],
       [n |-> 3, bbox |-> <<>>, text |-> <<"h", "i">>],
       [n |-> 3, bbox |-> <<<<400, 200>>, <<600, 200>>, <<600, 300>>, <<400, 300>>>>,
        text |-> <<"h", "i">>] >>

\* The frames handed to ocr_image_data (width, height, and the number of
\* dimensions of np.array(pil_image): 3 for a colour image, 2 for a grey one)
\* and the text regions they show, in the frame's own coordinates.
OcrCases ==
    [frame : {[w |-> 800, h |-> 600, ndim |-> 3], [w |-> 3200, h |-> 1800, ndim |-> 3],
              [w |-> 3200, h |-> 1800, ndim |-> 2]},
     scene : {<<>>, SubSeq(OcrItems, 1, 3)}
             \cup {<<OcrItems[i]>> : i \in 1..Len(OcrItems)}
             \cup {<<OcrItems[i], OcrItems[j]>> : i, j \in 2..4}]

\* Lines 30-44: a colour frame wider than 1600 is resized to 1600 x
\* int(h * 1600 / w) and the engine is run on the resized image: it reports
\* each region where it lies in the image it was given.
ocr_engine(frame, scene) ==
    LET small == frame.ndim = 3 /\ frame.w > MaxOcrWidth
        w2 == IF small THEN MaxOcrWidth ELSE frame.w
        h2 == IF small THEN (frame.h * MaxOcrWidth) \div frame.w ELSE frame.h
    IN [i \in 1..Len(scene) |->
          [scene[i] EXCEPT !.bbox =
              [k \in 1..Len(scene[i].bbox) |->
                  << (scene[i].bbox[k][1] * w2) \div frame.w,
                     (scene[i].bbox[k][2] * h2) \div frame.h >>]]]

\* Lines 60-63 and 70-74: x, y = int(min(xs)), int(min(ys)); w, h =
\* int(max(xs) - x), int(max(ys) - y); int() drops the fraction.
Entry(item) ==
    LET xs == {item.bbox[k][1] : k \in 1..Len(item.bbox)}
        ys == {item.bbox[k][2] : k \in 1..Len(item.bbox)}
        x == (CHOOSE v \in xs : \A u \in xs : v <= u) \div 2
        y == (CHOOSE v \in ys : \A u \in ys : v <= u) \div 2
        w == ((CHOOSE v \in xs : \A u \in xs : v >= u) - 2 * x) \div 2
        h == ((CHOOSE v \in ys : \A u \in ys : v >= u) - 2 * y) \div 2
    IN [text |-> strip(item.text), bbox |-> <<x, y, w, h>>, lang |-> "unknown"]

\* Lines 51-68: an item is skipped if it does not unpack into three, if its
\* text is empty or blank, if min() or max() raises, or if w < 5 or h < 5.
KeepsAnySize(item) ==
    /\ item.n = 3
    /\ item.text # <<>> /\ strip(item.text) # <<>>
    /\ item.bbox # <<>>
Keeps(item) ==
    /\ item.n = 3
    /\ item.text # <<>> /\ strip(item.text) # <<>>
    /\ item.bbox # <<>>
    /\ ~(Entry(item).bbox[3] < MinBoxSide \/ Entry(item).bbox[4] < MinBoxSide)

\* Lines 45-76: the loop over the engine's result (None or empty: nothing).
RECURSIVE Entries(_)
Entries(result) ==
    IF result = <<>> THEN <<>>
    ELSE (IF Keeps(Head(result)) THEN <<Entry(Head(result))>> ELSE <<>>)
         \o Entries(Tail(result))

\* ocr_image_data(pil_image), lines 15-76.
ocr_image_data(frame, scene) == Entries(ocr_engine(frame, scene))

\* A caller (CaptureWorker.run line 54, run_ocr line 335) calls
\* ocr_image_data on a frame.
OcrCall ==
    /\ ocr_out = <<>>
    /\ ocr_out' = <<ocr_image_data(ocr_in.frame, ocr_in.scene)>>
    /\ UNCHANGED <<ocr_in, paint_in, paint_out, list_in, list_out, tvars, cvars,
                   wvars, hvars, mvars>>

\* main.py lines 154-155: the label is the text's rectangle plus this.
LabelPadding == 12

\* int(x * (a / b)) as Python computes it, in IEEE 754 double precision with
\* round-to-nearest-even, for integers 0 <= x, a < 4096 and 0 < b < 4096.
\* With 2^e <= a/b < 2^(e+1), the quotient's 53-digit mantissa is 1 followed
\* by four groups of 13 binary digits B1..B4 got by long division, rounded up
\* (up1) by the next digit and the remainder.  Its product with x is formed
\* group by group (l0..l3, p4), rounded to 53 digits again (dropping its d
\* lowest digits, up2), and int() keeps the digits of weight 1 and above.
float_scale(x, a, b) ==
    IF x = 0 \/ a = 0 THEN 0 ELSE
    LET e == CHOOSE k \in -12..11 :
                 IF k >= 0 THEN b * 2^k <= a /\ a < b * 2^(k+1)
                 ELSE b <= a * 2^(-k) /\ a * 2^(-k) < 2 * b
        a2 == IF e >= 0 THEN a ELSE a * 2^(-e)
        b2 == IF e >= 0 THEN b * 2^e ELSE b
        r0 == a2 % b2
        B1 == (r0 * 8192) \div b2
        r1 == (r0 * 8192) % b2
        B2 == (r1 * 8192) \div b2
        r2 == (r1 * 8192) % b2
        B3 == (r2 * 8192) \div b2
        r3 == (r2 * 8192) % b2
        B4 == (r3 * 8192) \div b2
        r4 == (r3 * 8192) % b2
        up1 == IF 2 * r4 >= b2 /\ ((2 * r4) % b2 # 0 \/ B4 % 2 = 1) THEN 1 ELSE 0
        l0 == x * B4 + x * up1
        l1 == x * B3 + l0 \div 8192
        l2 == x * B2 + l1 \div 8192
        l3 == x * B1 + l2 \div 8192
        p4 == x + l3 \div 8192
        d == CHOOSE k \in 0..13 : 2^k <= p4 /\ p4 < 2^(k+1)
        up2 == /\ d > 0
               /\ ((l0 % 8192) \div 2^(d-1)) % 2 = 1
               /\ ((l0 % 8192) % 2^(d-1) # 0 \/ ((l0 % 8192) \div 2^d) % 2 = 1)
        h == 52 - e
        whole == IF h <= 52 THEN p4 * 2^(52 - h) + (l3 % 8192) \div 2^(h - 39)
                 ELSE p4 \div 2^(h - 52)
        ones == /\ (l0 % 8192) \div 2^d = 2^(13 - d) - 1
                /\ l1 % 8192 = 8191 /\ l2 % 8192 = 8191
                /\ IF h <= 52 THEN (l3 % 8192) % 2^(h - 39) = 2^(h - 39) - 1
                   ELSE l3 % 8192 = 8191 /\ p4 % 2^(h - 52) = 2^(h - 52) - 1
    IN whole + (IF up2 /\ ones THEN 1 ELSE 0)

\* What paintEvent is given: the size of the frame (self.qimage), the size of
\* the widget (self.rect()), one overlay entry's bbox, and its text as the
\* font measures it: the width of each word and of a blank, in pixels.
PaintCases ==
    [src : {<<800, 600>>, <<640, 480>>},
     target : {<<1600, 300>>, <<224, 168>>},
     bbox : {<<100, 100, 20, 20>>, <<180, 100, 500, 300>>},
     words : {<<>>, <<40, 40, 40, 40>>, <<400>>},
     blank : {4}]

\* PreviewWidget.paintEvent, lines 128-161, for one entry: the anchor is
\* int(x * scale_x), int(y * scale_y) with the float scales of lines 129-130;
\* the text is laid out with word wrap in a rectangle int(width * 0.6) wide
\* (a line is broken between words only, so a word wider than the rectangle
\* stays whole and boundingRect returns the wider rectangle); the box drawn
\* is the text's rectangle plus 12.
paintEvent(in) ==
    LET scale_x_over == IF in.src[1] >= 1 THEN in.src[1] ELSE 1
        scale_y_over == IF in.src[2] >= 1 THEN in.src[2] ELSE 1
        max_width == float_scale(in.target[1], 6, 10)
        line[i \in 0..Len(in.words)] ==
            IF i = 0 THEN 0
            ELSE IF i = 1 THEN in.words[1]
            ELSE IF line[i-1] + in.blank + in.words[i] <= max_width
                 THEN line[i-1] + in.blank + in.words[i]
                 ELSE in.words[i]
        text_w == CHOOSE v \in {line[i] : i \in 0..Len(in.words)} :
                      \A i \in 0..Len(in.words) : v >= line[i]
    IN [tx |-> float_scale(in.bbox[1], in.target[1], scale_x_over),
        ty |-> float_scale(in.bbox[2], in.target[2], scale_y_over),
        box_w |-> text_w + LabelPadding]

\* Qt repaints the preview.
Paint ==
    /\ paint_out = <<>>
    /\ paint_out' = <<paintEvent(paint_in)>>
    /\ UNCHANGED <<ocr_in, ocr_out, paint_in, list_in, list_out, tvars, cvars,
                   wvars, hvars, mvars>>

\* What list_windows finds: the platform, the top-level windows in the order
\* the OS enumerates them (EnumWindows, CGWindowListCopyWindowInfo: front to
\* back, so the order changes as windows are raised), and whether Quartz can
\* be imported.  Two of the windows have titles that differ in case only, one
\* has no title.
ListCases ==
    LET Wins == {[id |-> 1, title |-> <<"b">>, visible |-> TRUE, pid |-> 7],
                 [id |-> 2, title |-> <<"A">>, visible |-> TRUE, pid |-> 8],
                 [id |-> 3, title |-> <<"a">>, visible |-> TRUE, pid |-> 9],
                 [id |-> 4, title |-> <<>>, visible |-> TRUE, pid |-> 9]}
    IN [platform : {"win", "mac", "other"},
        wins : {e \in UNION {[1..n -> Wins] : n \in 0..3} :
                   \A i, j \in DOMAIN e : e[i] = e[j] => i = j},
        quartz : BOOLEAN]

\* Line 34: key=lambda x: x[1].lower(), and Python's order of strings: s.lower()
\* < t.lower().
TitleKeyLess(s, t) ==
    LET lower(c) == IF c = "A" THEN "a" ELSE IF c = "B" THEN "b" ELSE c
        code(c) == CHOOSE k \in 1..2 : <<"a", "b">>[k] = lower(c)
    IN \E k \in 1..(Len(t)) :
          /\ \A i \in 1..(k-1) : i <= Len(s) /\ lower(s[i]) = lower(t[i])
          /\ k > Len(s) \/ code(s[k]) < code(t[k])

\* WindowLister.list_windows, lines 18-57.  Windows: the visible windows with
\* a title as (hwnd, title), sorted by lower-cased title (list.sort is stable:
\* equal keys keep the order of enumeration).  macOS: the windows with a title
\* and a pid as (pid, title), in the order of enumeration; [] when anything
\* raises.  Elsewhere: [].
list_windows(in) ==
    LET shown == SelectSeq(in.wins, LAMBDA w : w.visible /\ w.title # <<>>)
        named == SelectSeq(in.wins, LAMBDA w : w.title # <<>> /\ w.pid # 0)
        before(i, j) == \/ TitleKeyLess(shown[i].title, shown[j].title)
                        \/ /\ ~TitleKeyLess(shown[j].title, shown[i].title)
                           /\ i < j
        place(i) == Cardinality({j \in 1..Len(shown) : before(j, i)}) + 1
    IN IF in.platform = "win"
       THEN [k \in 1..Len(shown) |->
               LET i == CHOOSE i \in 1..Len(shown) : place(i) = k
               IN <<shown[i].id, shown[i].title>>]
       ELSE IF in.platform = "mac"
       THEN IF in.quartz
            THEN [k \in 1..Len(named) |-> <<named[k].pid, named[k].title>>]
            ELSE <<>>
       ELSE <<>>

\* refresh_windows, main.py line 307, calls WindowLister.list_windows().
ListWindows ==
    /\ list_out = <<>>
    /\ list_out' = <<list_windows(list_in)>>
    /\ UNCHANGED <<ocr_in, ocr_out, paint_in, paint_out, list_in, tvars, cvars,
                   wvars, hvars, mvars>>

\* The inputs of the functions, drawn from the given sets; nothing returned yet.
PInit(ocr_inputs, paint_inputs, list_inputs) ==
    /\ ocr_in \in ocr_inputs
    /\ ocr_out = <<>>
    /\ paint_in \in paint_inputs
    /\ paint_out = <<>>
    /\ list_in \in list_inputs
    /\ list_out = <<>>

\* One input of each function, for the specifications that exercise
\* something else.
AtRest ==
    [ocr |-> [frame |-> [w |-> 800, h |-> 600, ndim |-> 3], scene |-> <<>>],
     paint |-> [src |-> <<800, 600>>, target |-> <<1600, 300>>,
                bbox |-> <<100, 100, 20, 20>>, words |-> <<>>, blank |-> 4],
     list |-> [platform |-> "other", wins |-> <<>>, quartz |-> FALSE]]

PIdle == PInit({AtRest.ocr}, {AtRest.paint}, {AtRest.list})

(***************************************************************************)
(* Claims about the functions                                              *)
(***************************************************************************)

\* The corners of an item's axis-aligned envelope, in half pixels.
C22_Envelope(it) ==
    LET xs == {it.bbox[k][1] : k \in 1..Len(it.bbox)}
        ys == {it.bbox[k][2] : k \in 1..Len(it.bbox)}
    IN [x0 |-> CHOOSE v \in xs : \A u \in xs : v <= u,
        y0 |-> CHOOSE v \in ys : \A u \in ys : v <= u,
        x1 |-> CHOOSE v \in xs : \A u \in xs : v >= u,
        y1 |-> CHOOSE v \in ys : \A u \in ys : v >= u]

C22_HasText(it) == it.n = 3 /\ it.bbox # <<>> /\ strip(it.text) # <<>>

C22_KeptExact(it) ==
    /\ C22_HasText(it)
    /\ C22_Envelope(it).x1 - C22_Envelope(it).x0 >= 2 * MinBoxSide
    /\ C22_Envelope(it).y1 - C22_Envelope(it).y0 >= 2 * MinBoxSide

C22_KeptWhole(it) ==
    /\ C22_HasText(it)
    /\ (C22_Envelope(it).x1 \div 2) - (C22_Envelope(it).x0 \div 2) >= MinBoxSide
    /\ (C22_Envelope(it).y1 \div 2) - (C22_Envelope(it).y0 \div 2) >= MinBoxSide

\* C22 as stated: ocr_image_data returns, in engine order, exactly the items
\* whose trimmed text is non-empty and whose envelope (min x, min y, max x -
\* min x, max y - min y) is at least 5 wide and 5 high, each with its trimmed
\* text, that envelope as bbox and the language tag "unknown".
C22_ExactEnvelopes ==
    ocr_out # <<>> =>
        LET kept == SelectSeq(ocr_engine(ocr_in.frame, ocr_in.scene), C22_KeptExact)
            out == ocr_out[1]
        IN /\ Len(out) = Len(kept)
           /\ \A i \in 1..Len(out) :
                 /\ out[i].text = strip(kept[i].text)
                 /\ out[i].lang = "unknown"
                 /\ 2 * out[i].bbox[1] = C22_Envelope(kept[i]).x0
                 /\ 2 * out[i].bbox[2] = C22_Envelope(kept[i]).y0
                 /\ 2 * out[i].bbox[3] = C22_Envelope(kept[i]).x1 - C22_Envelope(kept[i]).x0
                 /\ 2 * out[i].bbox[4] = C22_Envelope(kept[i]).y1 - C22_Envelope(kept[i]).y0

\* C22, amended: the same with the envelope taken over whole pixels: its
\* corners are the polygon's extreme coordinates with the fraction dropped,
\* (floor min x, floor min y, floor max x - floor min x, floor max y - floor
\* min y), and this whole-pixel width and height are what is compared with 5.
C22_WholePixelEnvelopes ==
    ocr_out # <<>> =>
        LET kept == SelectSeq(ocr_engine(ocr_in.frame, ocr_in.scene), C22_KeptWhole)
            out == ocr_out[1]
        IN /\ Len(out) = Len(kept)
           /\ \A i \in 1..Len(out) :
                 /\ out[i].text = strip(kept[i].text)
                 /\ out[i].lang = "unknown"
                 /\ out[i].bbox[1] = C22_Envelope(kept[i]).x0 \div 2
                 /\ out[i].bbox[2] = C22_Envelope(kept[i]).y0 \div 2
                 /\ out[i].bbox[3] = (C22_Envelope(kept[i]).x1 \div 2)
                                       - (C22_Envelope(kept[i]).x0 \div 2)
                 /\ out[i].bbox[4] = (C22_Envelope(kept[i]).y1 \div 2)
                                       - (C22_Envelope(kept[i]).y0 \div 2)

\* C22's example: of an item without text, a 3x3 "Hi" and a 20x20 "OK", only
\* the last is returned, as text "OK" with bbox (0, 0, 20, 20).
C22_Witness ==
    /\ ocr_in.scene = SubSeq(OcrItems, 1, 3) /\ ocr_in.frame.w = 800
    /\ ocr_out = << <<[text |-> <<"O", "K">>, bbox |-> <<0, 0, 20, 20>>,
                       lang |-> "unknown"]>> >>

\* C23: every bounding box ocr_image_data returns is in the pixel coordinates
\* of the frame it was given: it is the box of one of the frame's regions as
\* it lies in that frame, whatever the frame's width.
C23_SourceFrameCoordinates ==
    ocr_out # <<>> =>
        \A i \in 1..Len(ocr_out[1]) :
            \E k \in 1..Len(ocr_in.scene) :
                /\ Keeps(ocr_in.scene[k])
                /\ ocr_out[1][i] = Entry(ocr_in.scene[k])

\* The anchor drawn is (floor(x*Wd/Ws), floor(y*Hd/Hs)).
C24_Anchor ==
    /\ paint_out[1].tx = (paint_in.bbox[1] * paint_in.target[1]) \div paint_in.src[1]
    /\ paint_out[1].ty = (paint_in.bbox[2] * paint_in.target[2]) \div paint_in.src[2]

\* The label, less its padding, is at most 60% of the widget's width.
C24_LabelWidth == 10 * (paint_out[1].box_w - LabelPadding) <= 6 * paint_in.target[1]

\* C24: a region anchored at (x, y) in a frame of size (Ws, Hs) is drawn at
\* (floor(x*Wd/Ws), floor(y*Hd/Hs)) in a widget of size (Wd, Hd), and the
\* label drawn is never wider than 60% of the widget's width plus the fixed
\* padding, whatever the region's w and h.
C24_AnchorAndLabelWidth == paint_out # <<>> => (C24_Anchor /\ C24_LabelWidth)

\* C25: on every supported platform list_windows returns the candidates
\* sorted by title without regard to case, the same sequence whenever the OS
\* has the same set of windows (in whatever order it enumerates them), and
\* the empty sequence when there are no windows.
C25_SortedAndStable ==
    list_out # <<>> =>
        /\ list_in.platform \in {"win", "mac"} =>
              \A i, j \in 1..Len(list_out[1]) :
                  i < j => ~TitleKeyLess(list_out[1][j][2], list_out[1][i][2])
        /\ \A c \in ListCases :
              (/\ c.platform = list_in.platform /\ c.quartz = list_in.quartz
               /\ {c.wins[i] : i \in DOMAIN c.wins}
                     = {list_in.wins[i] : i \in DOMAIN list_in.wins})
                 => list_windows(c) = list_out[1]
        /\ list_in.wins = <<>> => list_out[1] = <<>>

(***************************************************************************)
(* Specifications                                                          *)
(***************************************************************************)

\* Calls of translate_text from one thread only, one after the other.
TranslateSeqNext ==
    \/ \E a \in Triples : TCall(1, a)
    \/ TTest(1)
    \/ TProvider(1)
    \/ TStore(1)

InitTranslateSeq == TInit /\ CIdle /\ WIdle /\ HIdle /\ MIdle /\ PIdle

SpecTranslateSeq == InitTranslateSeq /\ [][TranslateSeqNext]_vars

\* Calls of translate_text from NThreads threads, interleaved at every line.
TranslateNext ==
    \/ \E t \in Threads, a \in Triples : TCall(t, a)
    \/ \E t \in Threads : TTest(t)
    \/ \E t \in Threads : TProvider(t)
    \/ \E t \in Threads : TStore(t)

InitTranslate == TInit /\ CIdle /\ WIdle /\ HIdle /\ MIdle /\ PIdle

SpecTranslate == InitTranslate /\ [][TranslateNext]_vars

\* One call of capture_window_image on each platform, over every outcome of
\* the strategies it invokes.
CaptureNext ==
    \/ WinBitblt
    \/ WinReturnBitblt
    \/ WinDxgi
    \/ MacWindow
    \/ MacReturnWindow
    \/ MacGrab
    \/ OtherReturn

InitCapture == TInit /\ CInit /\ WIdle /\ HIdle /\ MIdle /\ PIdle

SpecCapture == InitCapture /\ [][CaptureNext]_vars

\* One CaptureWorker from start() to the end of its thread, the main thread
\* that stops it and receives its events, and the passing of time.
WorkerNext ==
    \/ StartWorker
    \/ RunBegin
    \/ LoopExit
    \/ TickBegin
    \/ CaptureDone
    \/ OcrDone
    \/ SleepBegin
    \/ SleepEnd
    \/ StopBegin
    \/ StopReturn
    \/ Deliver
    \/ TimePasses

InitWorker == TInit /\ CIdle /\ WInit /\ HIdle /\ MIdle /\ PIdle

SpecWorker == InitWorker /\ [][WorkerNext]_vars

\* One TextractorWorker from start() on: its thread, the script's messages
\* and the main thread's stop(), interleaved at every statement.
HookNext ==
    \/ HStart
    \/ HRunBegin
    \/ HAttach
    \/ HCreate
    \/ HLoad
    \/ HLoopExit
    \/ on_message
    \/ HDeliver
    \/ HStopBegin
    \/ HStopUnload
    \/ HStopDetach
    \/ HStopReturn

InitHook == TInit /\ CIdle /\ WIdle /\ HInit /\ MIdle /\ PIdle

SpecHook == InitHook /\ [][HookNext]_vars

\* The window's handlers, the threads of the workers it created, and the
\* delivery of their events, on each platform.
WindowNext ==
    \/ attach_window
    \/ on_realtime_changed
    \/ on_interval_changed
    \/ on_src_lang_changed
    \/ on_hook_mode_changed
    \/ CWEmitFrame
    \/ CWEmitOcr
    \/ CWEnd
    \/ HWRun
    \/ HWHook
    \/ HWEmitText
    \/ on_frame_ready
    \/ on_ocr_ready
    \/ on_hook_text

InitWindow == TInit /\ CInit /\ WIdle /\ HIdle /\ MInit /\ PIdle

SpecWindow == InitWindow /\ [][WindowNext]_vars

\* The results table and its editor, from the moment the window is attached
\* with "Real-time OCR" checked: the user selects rows, types, applies and
\* saves, and may check the hook box, while the workers deliver frames,
\* region lists and hook lines.
EditorNext ==
    \/ on_hook_mode_changed
    \/ CWEmitFrame
    \/ CWEmitOcr
    \/ HWRun
    \/ HWHook
    \/ HWEmitText
    \/ on_frame_ready
    \/ on_ocr_ready
    \/ on_hook_text
    \/ on_select
    \/ UserTypes
    \/ apply_translation
    \/ save_translations

InitEditor == TInit /\ CInit /\ WIdle /\ HIdle /\ MAttached /\ PIdle

SpecEditor == InitEditor /\ [][EditorNext]_vars

\* The functions, each on its inputs.
FunctionsNext ==
    \/ OcrCall
    \/ Paint
    \/ ListWindows

InitFunctions ==
    /\ TInit /\ CIdle /\ WIdle /\ HIdle /\ MIdle
    /\ \/ PInit(OcrCases, {AtRest.paint}, {AtRest.list})
       \/ PInit({AtRest.ocr}, PaintCases, {AtRest.list})
       \/ PInit({AtRest.ocr}, {AtRest.paint}, ListCases)

SpecFunctions == InitFunctions /\ [][FunctionsNext]_vars

====
